---- MODULE Spec2Model ----
(***************************************************************************)
(* kube-log-helper: the main-process services (SSH tunnels, cluster        *)
(* clients, remote log streams, shell filter processes), the renderer's    *)
(* log store and the LogViewer's buffered render feed, as state machines.  *)
(***************************************************************************)
EXTENDS Integers, Sequences, FiniteSets, TLC

(* ------------------------------ bounds --------------------------------- *)
MaxTunnels == 3
MaxStreams == 3
MaxProcs == 3
MaxCommandLen == 3
MaxReplies == 1
MaxLines == 5
MaxChunkLines == 2

ConnIds == {"c1", "c2"}

(* the temporary id of a connection test, `test-${Date.now()}`, and the    *)
(* ids the tunnel and client registries are keyed with                     *)
tempId == "test"
RegistryIds == ConnIds \cup {tempId}
SessionIds == {"s1", "s2"}

TunnelIds == 1..MaxTunnels
StreamIds == 1..MaxStreams
ProcIds == 1..MaxProcs

NoTunnel == 0
NoStream == 0
NoProc == 0
NoPort == 0

(* --------------------------- kubeconfig text --------------------------- *)
(* A kubeconfig is the list of its clusters' server values (each a list of *)
(* lexical pieces, in file order) and the index of the cluster the         *)
(* current context selects.                                                *)
ServerPlain == <<"https://", "host", ":", "6443">>
ServerQuoted == <<"\"", "https://", "host", ":", "6443", "\"">>

Kubeconfigs ==
  { [servers |-> <<ServerPlain>>, current |-> 1],
    [servers |-> <<ServerQuoted>>, current |-> 1],
    [servers |-> <<ServerPlain, ServerPlain>>, current |-> 2] }

(* /server:\s*https?:\/\/([^:/\s]+):?(\d+)?/ applied to one server value:  *)
(* right after "server:" and blanks the scheme must follow, then a host.   *)
ServerValueMatches(v) ==
  /\ Len(v) >= 2
  /\ v[1] \in {"https://", "http://"}
  /\ v[2] = "host"

(* kubeconfig.match(...): true iff some "server:" line of the text matches *)
serverMatch(kc) ==
  \E i \in 1..Len(kc.servers) : ServerValueMatches(kc.servers[i])

VARIABLES
  connections,   \* connection.ipc: Map id -> StoredConnection
  tunnels,       \* SSHTunnelService.tunnels: Map id -> TunnelInfo
  tunnelObjs,    \* every SSH client / net.Server pair ever created
  clients,       \* K8sService.clients: Map id -> KubeClient
  logStreams,    \* K8sService.logStreams: Map sessionId -> handle
  streamObjs,    \* every remote log request ever issued
  lastCall,      \* per sessionId, the last of start/stop that was invoked
  filters,       \* ShellFilterService.filters: Map sessionId -> FilterSession
  procObjs,      \* every child process ever spawned
  filterResult,  \* what the last startFilter call returned
  lastWrite,     \* what the last writeToFilter call did
  piped,         \* lines written to a filter's stdin that it has not read yet
  command,       \* the command under validation
  sessions,          \* logStore.sessions
  activeSessionId,   \* logStore.activeSessionId
  sessionFilters,    \* logStore.sessionFilters
  activeFilters,     \* logStore.activeFilters
  filterErrors,      \* logStore.filterErrors
  filterReplies,     \* startShellFilter results on their way to the renderer
  stopPc,            \* per session id, where a running stopSession call stands
  stopped,           \* session ids for which a stopSession call has completed
  lastEvent,         \* the last error event sent to the renderer
  callArgs,          \* the arguments of the function call under examination
  callValue,         \* what that call has returned or settled with
  logLines,          \* LogViewer logLinesRef, of the viewer of ViewedSession
  pendingLines,      \* LogViewer pendingLinesRef
  rafId,             \* LogViewer rafIdRef
  grepFilter,        \* the store's grepFilter as the viewer last rendered it
  grepFiltersRef,    \* LogViewer grepFiltersRef
  filterTimer,       \* LogViewer filterTimerRef: a re-filter is due
  timerDue,          \* frame periods left until the re-filter timer is due
  frames,            \* batch-update frames requested, not yet run or cancelled
  displayLines,      \* LogViewer displayLines
  scrollTop,         \* the log container's scrollTop, in rows
  isAtBottom,        \* LogViewer isAtBottomRef
  pendingFilterLines, \* LogViewer pendingFilterLinesRef
  filterRafId,       \* LogViewer filterRafIdRef
  received           \* number of non-blank lines the viewer has received

tunnelVars == <<connections, tunnels, tunnelObjs, clients>>
streamVars == <<logStreams, streamObjs, lastCall>>
mainVars == <<tunnelVars, streamVars>>
filterVars == <<filters, procObjs, filterResult, command, lastWrite, piped>>
stopVars == <<stopPc, stopped>>
eventVars == <<lastEvent>>
callVars == <<callArgs, callValue>>
grepVars == <<grepFilter, grepFiltersRef, filterTimer, timerDue>>
storeVars == <<sessions, activeSessionId, sessionFilters, activeFilters,
               filterErrors, filterReplies, stopVars>>
scrollVars == <<scrollTop, isAtBottom>>
viewVars == <<logLines, pendingLines, rafId, frames, displayLines, scrollVars,
              pendingFilterLines, filterRafId, received>>
vars == <<mainVars, filterVars, storeVars, eventVars, callVars, grepVars, viewVars>>
notMain == <<filterVars, storeVars, eventVars, callVars, grepVars, viewVars>>
notFilter == <<mainVars, storeVars, eventVars, callVars, grepVars, viewVars>>
notView == <<mainVars, filterVars, sessions, activeSessionId, sessionFilters,
             filterErrors, filterReplies, stopVars, eventVars, callVars, grepVars>>

NoConnection == [stored |-> FALSE, ssh |-> FALSE, tunnelPort |-> NoPort]
NoClient == [present |-> FALSE, server |-> <<>>]
NoKubeconfig == [servers |-> <<>>, current |-> 0]
FreshTunnel == [id |-> "none", client |-> "idle", server |-> "none",
                ssh |-> FALSE, kubeconfig |-> NoKubeconfig]
NoFilter == [process |-> NoProc, isAlive |-> FALSE]
FreshProc == [sessionId |-> "none", state |-> "unused", command |-> <<>>]
NoResult == [sessionId |-> "none", success |-> FALSE, error |-> "none"]
NoWrite == [sessionId |-> "none", returned |-> FALSE, stdin |-> NoProc]
NoCall == [fn |-> "none"]
NoEvent == [channel |-> "none", sessionId |-> "none", error |-> "none"]
FreshStream == [sessionId |-> "none", connectionId |-> "none",
                state |-> "unused"]
(* objects that are gone for good keep only their final state *)
GoneTunnel(client, server) == [FreshTunnel EXCEPT !.client = client,
                                                  !.server = server]
GoneStream(state) == [FreshStream EXCEPT !.state = state]
GoneProc(state) == [FreshProc EXCEPT !.state = state]


InitServices ==
  /\ connections = [id \in ConnIds |-> NoConnection]
  /\ tunnels = [id \in RegistryIds |-> NoTunnel]
  /\ tunnelObjs = [t \in TunnelIds |-> FreshTunnel]
  /\ clients = [id \in RegistryIds |-> NoClient]
  /\ logStreams = [s \in SessionIds |-> NoStream]
  /\ streamObjs = [st \in StreamIds |-> FreshStream]
  /\ lastCall = [s \in SessionIds |-> "none"]
  /\ filters = [s \in SessionIds |-> NoFilter]
  /\ procObjs = [p \in ProcIds |-> FreshProc]
  /\ filterResult = NoResult
  /\ lastWrite = NoWrite
  /\ piped = <<>>
  /\ lastEvent = NoEvent
  /\ sessions = <<>>
  /\ activeSessionId = "null"
  /\ sessionFilters = [s \in SessionIds |-> <<>>]
  /\ activeFilters = {}
  /\ filterErrors = [s \in SessionIds |-> "none"]
  /\ filterReplies = <<>>
  /\ stopPc = [s \in SessionIds |-> "idle"]
  /\ stopped = {}
  /\ logLines = <<>>
  /\ pendingLines = <<>>
  /\ rafId = "null"
  /\ frames = 0
  /\ displayLines = <<>>
  /\ scrollTop = 0
  /\ isAtBottom = TRUE
  /\ pendingFilterLines = <<>>
  /\ filterRafId = "null"
  /\ received = 0
  /\ grepFilter = <<>>
  /\ grepFiltersRef = <<>>
  /\ filterTimer = FALSE
  /\ timerDue = 0

InitNoCall == callArgs = NoCall /\ callValue = NoCall

Init ==
  /\ InitServices
  /\ InitNoCall
  /\ command = <<>>

(* ========================= SSHTunnelService ============================ *)
(* server.listen(0, ...): the OS assigns each listener its own port        *)
localPort(t) == t

(* a tunnel object owns a live local listener / a live SSH client          *)
ListenerLive(t) == tunnelObjs[t].server = "listening"
ClientLive(t) == tunnelObjs[t].client \in {"connecting", "ready"}

(* closeTunnel(id): server.close(), client.end(), tunnels.delete(id)       *)
closeTunnelObjs(id) ==
  IF tunnels[id] # NoTunnel
  THEN [tunnelObjs EXCEPT ![tunnels[id]] = GoneTunnel("ended", "closed")]
  ELSE tunnelObjs
closeTunnelMap(id) == [tunnels EXCEPT ![id] = NoTunnel]

UnusedTunnels == {t \in TunnelIds : tunnelObjs[t].client = "idle"}
NewTunnel == CHOOSE t \in UnusedTunnels : \A u \in UnusedTunnels : t <= u

(* createTunnel(id, ...) up to client.connect(): an existing tunnel of the *)
(* id is closed, then a new SSH client starts its handshake.  The caller   *)
(* (connection:add) is suspended on the promise; its config rides along.   *)
createTunnel(id, config) ==
  /\ UnusedTunnels # {}
  /\ tunnels' = closeTunnelMap(id)
  /\ tunnelObjs' = [closeTunnelObjs(id) EXCEPT ![NewTunnel] =
                      [id |-> id, client |-> "connecting", server |-> "none",
                       ssh |-> config.ssh, kubeconfig |-> config.kubeconfig]]

(* ============================ K8sService =============================== *)
(* yaml.load of a server value: surrounding quotes are not part of it      *)
yamlLoad(v) == SelectSeq(v, LAMBDA piece : piece # "\"")

TunnelServer(tunnelPort) == <<"https://", "127.0.0.1", ":", tunnelPort>>

(* connect(id, kubeconfigYaml, tunnelPort): with a tunnel port, the server *)
(* of clusters[0] is rewritten; the client talks to the current cluster.   *)
connect(kubeconfig, tunnelPort) ==
  LET loaded == [i \in 1..Len(kubeconfig.servers) |->
                   yamlLoad(kubeconfig.servers[i])]
      config == IF tunnelPort # NoPort /\ Len(loaded) >= 1
                THEN [loaded EXCEPT ![1] = TunnelServer(tunnelPort)]
                ELSE loaded
  IN [present |-> TRUE, server |-> config[kubeconfig.current]]

(* disconnect(id) *)
disconnect(id) == [clients EXCEPT ![id] = NoClient]

UnusedStreams == {st \in StreamIds : streamObjs[st].state = "unused"}
NewStream == CHOOSE st \in UnusedStreams : \A u \in UnusedStreams : st <= u

(* startLogStream up to `await log.log(...)`: getClient throws for an      *)
(* unknown connection; otherwise the remote request is issued.             *)
startLogStream(sessionId, connectionId) ==
  /\ clients[connectionId].present
  /\ UnusedStreams # {}
  /\ streamObjs' = [streamObjs EXCEPT ![NewStream] =
        [sessionId |-> sessionId, connectionId |-> connectionId,
         state |-> "opening"]]
  /\ lastCall' = [lastCall EXCEPT ![sessionId] = "start"]
  /\ UNCHANGED logStreams

(* log.log resolved: this.logStreams.set(sessionId, {request, abort})      *)
logOpened(st) ==
  /\ streamObjs[st].state = "opening"
  /\ streamObjs' = [streamObjs EXCEPT ![st].state = "live"]
  /\ logStreams' = [logStreams EXCEPT ![streamObjs[st].sessionId] = st]
  /\ UNCHANGED lastCall

(* log.log rejected: catch (error) { onError(error) }                      *)
logOpenFailed(st) ==
  /\ streamObjs[st].state = "opening"
  /\ streamObjs' = [streamObjs EXCEPT ![st] = GoneStream("failed")]
  /\ UNCHANGED <<logStreams, lastCall>>

(* a stopLogStream that aborts every request of the session, registered    *)
(* or not                                                                  *)
stopLogStreamObjsAny(sessionId) ==
  [st \in StreamIds |->
     IF streamObjs[st].sessionId = sessionId THEN GoneStream("aborted")
     ELSE streamObjs[st]]

(* stopLogStream(sessionId): abort and delete the registered handle        *)
stopLogStreamObjs(sessionId) ==
  IF logStreams[sessionId] # NoStream
  THEN [streamObjs EXCEPT ![logStreams[sessionId]] = GoneStream("aborted")]
  ELSE streamObjs
stopLogStreamMap(sessionId) == [logStreams EXCEPT ![sessionId] = NoStream]

stopLogStream(sessionId) ==
  /\ streamObjs' = stopLogStreamObjs(sessionId)
  /\ logStreams' = stopLogStreamMap(sessionId)
  /\ lastCall' = [lastCall EXCEPT ![sessionId] = "stop"]

(* the session ids with a registered handle: this.logStreams.keys()        *)
RegisteredSessions == {s \in SessionIds : logStreams[s] # NoStream}

(* stopAllLogStreams(): stopLogStream for every key of the map; deleting   *)
(* the entry under iteration does not disturb the iteration of a Map       *)
stopAllLogStreamsObjs ==
  [st \in StreamIds |->
     IF \E s \in RegisteredSessions : logStreams[s] = st
     THEN GoneStream("aborted") ELSE streamObjs[st]]

(* a stopAllLogStreams whose iteration ends after the first deletion       *)
stopAllLogStreamsMapFirstOnly ==
  IF RegisteredSessions = {} THEN logStreams
  ELSE stopLogStreamMap(CHOOSE s \in RegisteredSessions : TRUE)

stopAllLogStreamsMap == [s \in SessionIds |-> NoStream]

stopAllLogStreams ==
  /\ streamObjs' = stopAllLogStreamsObjs
  /\ logStreams' = stopAllLogStreamsMap
  /\ lastCall' = [s \in SessionIds |->
                    IF s \in RegisteredSessions THEN "stopAll" ELSE lastCall[s]]

(* ========================= ShellFilterService ========================== *)
(* A command is a sequence of lexical pieces: words and the characters the *)
(* validation looks at.                                                    *)
allowedCommands == {"grep", "awk", "sed", "cut", "sort", "uniq",
                    "head", "tail", "jq", "tr", "wc", "cat"}
Words == {"grep", "rm", "x"}
Spaces == {" ", "\n"}
Specials == {"|", ";", "&", "backtick", "$(", ">", "<", "/dev/", "../"}
Pieces == Words \cup Spaces \cup Specials
IsWord(a) == a \in Words \cup allowedCommands \cup {"mv", "cp"}

RECURSIVE trimStart(_)
trimStart(str) ==
  IF str # <<>> /\ Head(str) \in Spaces THEN trimStart(Tail(str)) ELSE str
RECURSIVE trimEnd(_)
trimEnd(str) ==
  IF str # <<>> /\ str[Len(str)] \in Spaces
  THEN trimEnd(SubSeq(str, 1, Len(str) - 1)) ELSE str
(* String.prototype.trim *)
trim(str) == trimEnd(trimStart(str))

(* command.split('|') *)
RECURSIVE splitPipe(_)
splitPipe(str) ==
  IF \E i \in 1..Len(str) : str[i] = "|"
  THEN LET i == CHOOSE k \in 1..Len(str) :
                  str[k] = "|" /\ \A j \in 1..(k - 1) : str[j] # "|"
       IN <<SubSeq(str, 1, i - 1)>> \o splitPipe(SubSeq(str, i + 1, Len(str)))
  ELSE <<str>>

(* part.split(/\s+/)[0]: the pieces before the first blank *)
RECURSIVE firstToken(_)
firstToken(part) ==
  IF part = <<>> \/ Head(part) \in Spaces THEN <<>>
  ELSE <<Head(part)>> \o firstToken(Tail(part))

(* /\bw\b/ : the word w stands alone, not glued to another word *)
HasWord(cmd, w) ==
  \E i \in 1..Len(cmd) :
    /\ cmd[i] = w
    /\ (i = 1 \/ ~IsWord(cmd[i - 1]))
    /\ (i = Len(cmd) \/ ~IsWord(cmd[i + 1]))

(* containsDangerousPatterns(cmd): the first pattern that matches          *)
containsDangerousPatterns(cmd) ==
  IF \E i \in 1..Len(cmd) : cmd[i] \in {";", "&", "backtick"} THEN "chaining"
  ELSE IF \E i \in 1..Len(cmd) : cmd[i] = "$(" THEN "subshell"
  ELSE IF \E i \in 1..Len(cmd) : cmd[i] = ">" /\ i < Len(cmd)
                                 /\ cmd[i + 1] # "|" THEN "output redirection"
  ELSE IF \E i \in 1..Len(cmd) : cmd[i] = "<" THEN "input redirection"
  ELSE IF HasWord(cmd, "rm") THEN "rm"
  ELSE IF HasWord(cmd, "mv") THEN "mv"
  ELSE IF HasWord(cmd, "cp") THEN "cp"
  ELSE IF \E i \in 1..Len(cmd) : cmd[i] = "/dev/" THEN "device"
  ELSE IF \E i \in 1..Len(cmd) : cmd[i] = "../" THEN "parent directory"
  ELSE "null"

RECURSIVE validateParts(_)

(* validateCommand looking at the first part only *)
validatePartsFirstOnly(parts) ==
  IF parts = <<>> \/ Head(parts) = <<>> THEN [valid |-> TRUE, error |-> "none"]
  ELSE IF ~(Len(firstToken(Head(parts))) = 1
            /\ firstToken(Head(parts))[1] \in allowedCommands)
  THEN [valid |-> FALSE, error |-> "command not allowed"]
  ELSE IF containsDangerousPatterns(Head(parts)) # "null"
  THEN [valid |-> FALSE, error |-> containsDangerousPatterns(Head(parts))]
  ELSE [valid |-> TRUE, error |-> "none"]

(* the loop of validateCommand over the trimmed parts *)
validateParts(parts) ==
  IF parts = <<>> THEN [valid |-> TRUE, error |-> "none"]
  ELSE LET part == Head(parts)
       IN IF part = <<>> THEN validateParts(Tail(parts))
          ELSE IF ~(Len(firstToken(part)) = 1
                    /\ firstToken(part)[1] \in allowedCommands)
          THEN [valid |-> FALSE, error |-> "command not allowed"]
          ELSE IF containsDangerousPatterns(part) # "null"
          THEN [valid |-> FALSE, error |-> containsDangerousPatterns(part)]
          ELSE validateParts(Tail(parts))

validateCommand(cmd) ==
  LET split == splitPipe(cmd)
  IN validateParts([i \in 1..Len(split) |-> trim(split[i])])

(* a child process that has not been killed and has not exited *)
ProcLive(p) == procObjs[p].state = "running"

(* stopFilter(sessionId) without filter.process.kill() *)
stopFilterObjsNoKill(sessionId) == procObjs

(* stopFilter(sessionId) *)
stopFilterObjs(sessionId) ==
  IF filters[sessionId].process # NoProc
     /\ ProcLive(filters[sessionId].process)
  THEN [procObjs EXCEPT ![filters[sessionId].process].state = "killed"]
  ELSE procObjs
(* a stopFilter that leaves the entry in the map *)
stopFilterMapKeep(sessionId) == filters

stopFilterMap(sessionId) == [filters EXCEPT ![sessionId] = NoFilter]

UnusedProcs == {p \in ProcIds : procObjs[p].state = "unused"}
NewProc == CHOOSE p \in UnusedProcs : \A u \in UnusedProcs : p <= u

(* what spawn('sh', ['-c', command]) can do: start the shell, throw, or    *)
(* report the failure as an 'error' event on the next tick                 *)
SpawnOutcomes == {"spawned", "throws", "error event"}

(* startFilter(sessionId, command, onData, onError): the value returned    *)
startFilterResult(sessionId, cmd, outcome) ==
  IF trim(cmd) = <<>>
  THEN [sessionId |-> sessionId, success |-> FALSE, error |-> "empty command"]
  ELSE IF ~validateCommand(cmd).valid
  THEN [sessionId |-> sessionId, success |-> FALSE,
        error |-> validateCommand(cmd).error]
  ELSE IF outcome = "throws"
  THEN [sessionId |-> sessionId, success |-> FALSE, error |-> "spawn failed"]
  ELSE [sessionId |-> sessionId, success |-> TRUE, error |-> "none"]

(* startFilter(sessionId, command, onData, onError): its effect.  The      *)
(* 'error' event of a failed spawn runs on the next tick, before any other *)
(* handler, and deletes the registration just made.                        *)
startFilter(sessionId, cmd, outcome) ==
  IF startFilterResult(sessionId, cmd, outcome).success /\ outcome = "spawned"
  THEN /\ UnusedProcs # {}
       /\ procObjs' = [stopFilterObjs(sessionId) EXCEPT ![NewProc] =
            [sessionId |-> sessionId, state |-> "running", command |-> cmd]]
       /\ filters' = [filters EXCEPT ![sessionId] =
            [process |-> NewProc, isAlive |-> TRUE]]
  ELSE /\ procObjs' = stopFilterObjs(sessionId)
       /\ filters' = stopFilterMap(sessionId)

(* proc.on('exit'): whatever is registered under the session id now is     *)
(* marked dead                                                             *)
procExit(p) ==
  /\ procObjs[p].state \in {"running", "killed"}
  /\ procObjs' = [procObjs EXCEPT ![p] = GoneProc("exited")]
  /\ filters' = IF filters[procObjs[p].sessionId].process # NoProc
                THEN [filters EXCEPT ![procObjs[p].sessionId].isAlive = FALSE]
                ELSE filters

(* what filter.stdin.write(data) can do: take the bytes, or throw          *)
WriteOutcomes == {"written", "throws"}

(* a writeToFilter that looks at the registration only, not at isAlive     *)
writeToFilterNoAliveCheck(sessionId, outcome) ==
  IF filters[sessionId].process = NoProc \/ outcome = "throws"
  THEN [sessionId |-> sessionId, returned |-> FALSE, stdin |-> NoProc]
  ELSE [sessionId |-> sessionId, returned |-> TRUE,
        stdin |-> filters[sessionId].process]

(* writeToFilter(sessionId, data): the value returned and the process      *)
(* whose stdin took the bytes                                              *)
writeToFilter(sessionId, outcome) ==
  IF filters[sessionId].process = NoProc \/ ~filters[sessionId].isAlive
  THEN [sessionId |-> sessionId, returned |-> FALSE, stdin |-> NoProc]
  ELSE IF outcome = "throws"
  THEN [sessionId |-> sessionId, returned |-> FALSE, stdin |-> NoProc]
  ELSE [sessionId |-> sessionId, returned |-> TRUE,
        stdin |-> filters[sessionId].process]

(* commands the running application is driven with *)
SampleCommands == { <<"grep", " ", "x">>, <<"rm", " ", "x">>, <<" ">> }

StartFilter(sessionId, cmd, outcome) ==
  /\ startFilter(sessionId, cmd, outcome)
  /\ filterResult' = startFilterResult(sessionId, cmd, outcome)
  /\ UNCHANGED <<command, lastWrite, piped, notFilter>>

StopFilter(sessionId) ==
  /\ procObjs' = stopFilterObjs(sessionId)
  /\ filters' = stopFilterMap(sessionId)
  /\ UNCHANGED <<filterResult, command, lastWrite, piped, notFilter>>

ProcExit(p) ==
  /\ procExit(p)
  /\ UNCHANGED <<filterResult, command, lastWrite, piped, notFilter>>

NextFilter ==
  \/ \E s \in SessionIds, cmd \in SampleCommands, outcome \in SpawnOutcomes :
       StartFilter(s, cmd, outcome)
  \/ \E s \in SessionIds : StopFilter(s)
  \/ \E p \in ProcIds : ProcExit(p)

SpecFilter == Init /\ [][NextFilter]_vars

WriteToFilter(sessionId, outcome) ==
  /\ lastWrite' = writeToFilter(sessionId, outcome)
  /\ UNCHANGED <<filters, procObjs, filterResult, command, piped, notFilter>>

(* the filter service with writes to the filters *)
NextWrite ==
  \/ \E s \in SessionIds, cmd \in SampleCommands, outcome \in SpawnOutcomes :
       StartFilter(s, cmd, outcome)
  \/ \E s \in SessionIds : StopFilter(s)
  \/ \E p \in ProcIds : ProcExit(p)
  \/ \E s \in SessionIds, outcome \in WriteOutcomes : WriteToFilter(s, outcome)

SpecWrite == Init /\ [][NextWrite]_vars

(* what a child process can exit with: a code, or null when a signal ended it *)
ExitCodes == {"0", "1", "null"}

(* an exit handler that reports the exits a signal caused and no other     *)
exitDiagnosticOnSignalOnly(code) == code = "null"

(* proc.on('exit'): code !== 0 && code !== null                            *)
exitDiagnostic(code) == code # "0" /\ code # "null"

(* the onError callback handed to startFilter(sessionId, ...): the error   *)
(* travels to the renderer as a filter error event of that session         *)
onFilterError(sessionId, error) ==
  [channel |-> "filter:error", sessionId |-> sessionId, error |-> error]

(* proc.on('exit', (code) => ...) of the process p                         *)
ProcExitCode(p, code) ==
  /\ procExit(p)
  /\ lastEvent' = IF exitDiagnostic(code)
                  THEN onFilterError(procObjs[p].sessionId, "exit code")
                  ELSE lastEvent
  /\ UNCHANGED <<filterResult, command, lastWrite, piped, mainVars, storeVars,
                 callVars, grepVars, viewVars>>

(* every command of up to MaxCommandLen pieces, and two-stage pipelines    *)
Commands ==
  UNION {[1..n -> Pieces] : n \in 0..MaxCommandLen}
    \cup {<<w1, " ", a, "|", w2>> : w1 \in Words, a \in Pieces, w2 \in Words}

(* startFilter applied to the command under validation *)
StartFilterCommand(sessionId, outcome) ==
  /\ startFilter(sessionId, command, outcome)
  /\ filterResult' = startFilterResult(sessionId, command, outcome)
  /\ UNCHANGED <<command, lastWrite, piped, notFilter>>

InitValidate ==
  /\ InitServices
  /\ InitNoCall
  /\ command \in Commands

NextValidate ==
  \E s \in SessionIds, outcome \in SpawnOutcomes :
    StartFilterCommand(s, outcome)

SpecValidate == InitValidate /\ [][NextValidate]_vars

(* =========================== connection.ipc ============================ *)
Configs == [ssh : BOOLEAN, kubeconfig : Kubeconfigs]
(* a connection without SSH endpoint *)
PlainConfigs == {config \in Configs : ~config.ssh /\ config.kubeconfig.servers = <<ServerPlain>>}

(* connection:add, the path that creates a tunnel first                    *)
ConnectionAddTunnel(id, config) ==
  /\ config.ssh
  /\ serverMatch(config.kubeconfig)
  /\ createTunnel(id, config)
  /\ UNCHANGED <<connections, clients, logStreams, streamObjs, lastCall>>
  /\ UNCHANGED notMain

(* connection:add without a tunnel: connect and store at once              *)
ConnectionAddDirect(id, config) ==
  /\ ~(config.ssh /\ serverMatch(config.kubeconfig))
  /\ clients' = [clients EXCEPT ![id] = connect(config.kubeconfig, NoPort)]
  /\ connections' = [connections EXCEPT ![id] =
        [stored |-> TRUE, ssh |-> config.ssh, tunnelPort |-> NoPort]]
  /\ UNCHANGED <<tunnels, tunnelObjs, logStreams, streamObjs, lastCall>>
  /\ UNCHANGED notMain

(* client.on('ready'): the listener is created and starts binding          *)
ClientReady(t) ==
  /\ tunnelObjs[t].client = "connecting"
  /\ tunnelObjs' = [tunnelObjs EXCEPT ![t].client = "ready",
                                      ![t].server = "binding"]
  /\ UNCHANGED <<connections, tunnels, clients, logStreams, streamObjs,
                 lastCall>>
  /\ UNCHANGED notMain

(* client.on('error'): createTunnel rejects, connection:add throws         *)
ClientError(t) ==
  /\ tunnelObjs[t].client = "connecting"
  /\ tunnelObjs' = [tunnelObjs EXCEPT ![t] = GoneTunnel("error", "none")]
  /\ UNCHANGED <<connections, tunnels, clients, logStreams, streamObjs,
                 lastCall>>
  /\ UNCHANGED notMain

(* server.listen callback: tunnels.set(id, ...), resolve(localPort); the   *)
(* awaiting connection:add resumes: connect(id, kubeconfig, tunnelPort)    *)
(* and connections.set(id, storedConnection).                              *)
ServerListening(t) ==
  /\ tunnelObjs[t].server = "binding"
  /\ tunnelObjs' = [tunnelObjs EXCEPT ![t].server = "listening",
                                      ![t].kubeconfig = NoKubeconfig]
  /\ tunnels' = [tunnels EXCEPT ![tunnelObjs[t].id] = t]
  /\ clients' = [clients EXCEPT ![tunnelObjs[t].id] =
                   connect(tunnelObjs[t].kubeconfig, localPort(t))]
  /\ connections' = [connections EXCEPT ![tunnelObjs[t].id] =
        [stored |-> TRUE, ssh |-> tunnelObjs[t].ssh,
         tunnelPort |-> localPort(t)]]
  /\ UNCHANGED <<logStreams, streamObjs, lastCall>>
  /\ UNCHANGED notMain

(* server.on('error'): createTunnel rejects; the SSH client is left open   *)
ServerError(t) ==
  /\ tunnelObjs[t].server = "binding"
  /\ tunnelObjs' = [tunnelObjs EXCEPT ![t].server = "error",
                                      ![t].kubeconfig = NoKubeconfig]
  /\ UNCHANGED <<connections, tunnels, clients, logStreams, streamObjs,
                 lastCall>>
  /\ UNCHANGED notMain

(* connection:remove *)
ConnectionRemove(id) ==
  /\ connections[id].stored
  /\ clients' = disconnect(id)
  /\ IF connections[id].ssh
     THEN /\ tunnelObjs' = closeTunnelObjs(id)
          /\ tunnels' = closeTunnelMap(id)
     ELSE UNCHANGED <<tunnelObjs, tunnels>>
  /\ connections' = [connections EXCEPT ![id] = NoConnection]
  /\ UNCHANGED <<logStreams, streamObjs, lastCall>>
  /\ UNCHANGED notMain

(* ============================== k8s.ipc ================================ *)
(* k8s:logs:start *)
LogsStart(sessionId, connectionId) ==
  /\ startLogStream(sessionId, connectionId)
  /\ UNCHANGED <<connections, tunnels, tunnelObjs, clients>>
  /\ UNCHANGED notMain

LogOpened(st) ==
  /\ logOpened(st)
  /\ UNCHANGED <<connections, tunnels, tunnelObjs, clients>>
  /\ UNCHANGED notMain

LogOpenFailed(st) ==
  /\ logOpenFailed(st)
  /\ UNCHANGED <<connections, tunnels, tunnelObjs, clients>>
  /\ UNCHANGED notMain

(* k8s:logs:stop *)
LogsStop(sessionId) ==
  /\ stopLogStream(sessionId)
  /\ UNCHANGED <<connections, tunnels, tunnelObjs, clients>>
  /\ UNCHANGED notMain

(* tunnels, cluster clients and stored connections only *)
NextTunnel ==
  \/ \E id \in ConnIds, config \in Configs : ConnectionAddTunnel(id, config)
  \/ \E id \in ConnIds, config \in Configs : ConnectionAddDirect(id, config)
  \/ \E t \in TunnelIds : ClientReady(t)
  \/ \E t \in TunnelIds : ClientError(t)
  \/ \E t \in TunnelIds : ServerListening(t)
  \/ \E t \in TunnelIds : ServerError(t)
  \/ \E id \in ConnIds : ConnectionRemove(id)

SpecTunnel == Init /\ [][NextTunnel]_vars

(* remote log streams over directly connected clusters *)
NextStream ==
  \/ \E id \in ConnIds, config \in PlainConfigs : ConnectionAddDirect(id, config)
  \/ \E id \in ConnIds : ConnectionRemove(id)
  \/ \E s \in SessionIds, c \in ConnIds : LogsStart(s, c)
  \/ \E st \in StreamIds : LogOpened(st)
  \/ \E st \in StreamIds : LogOpenFailed(st)
  \/ \E s \in SessionIds : LogsStop(s)

SpecStream == Init /\ [][NextStream]_vars


(* K8sService.stopAllLogStreams() on bulk teardown *)
StopAllLogStreams ==
  /\ stopAllLogStreams
  /\ UNCHANGED <<connections, tunnels, tunnelObjs, clients>>
  /\ UNCHANGED notMain

(* remote log streams with bulk teardown *)
NextStopAll ==
  \/ \E id \in ConnIds, config \in PlainConfigs : ConnectionAddDirect(id, config)
  \/ \E s \in SessionIds, c \in ConnIds : LogsStart(s, c)
  \/ \E st \in StreamIds : LogOpened(st)
  \/ \E st \in StreamIds : LogOpenFailed(st)
  \/ \E s \in SessionIds : LogsStop(s)
  \/ StopAllLogStreams

SpecStopAll == Init /\ [][NextStopAll]_vars

(* ============================= LogViewer =============================== *)
(* The LogViewer component of one session.  Lines are numbered in the      *)
(* order the viewer receives them.                                         *)
ViewedSession == "s1"

(* "Limit buffer to 50,000 lines", scaled to the model's line counts       *)
BufferLimit == 3

filterActive == ViewedSession \in activeFilters

(* Array.prototype.slice(-n) *)
slice(lines, n) ==
  IF Len(lines) > n THEN SubSeq(lines, Len(lines) - n + 1, Len(lines))
  ELSE lines

(* a buffer limit that keeps the oldest lines: slice(0, 50000) *)
limitBufferKeepOldest(lines) ==
  IF Len(lines) > BufferLimit THEN SubSeq(lines, 1, BufferLimit) ELSE lines

(* if (logLinesRef.current.length > 50000) ... slice(-50000) *)
limitBuffer(lines) ==
  IF Len(lines) > BufferLimit THEN slice(lines, BufferLimit) ELSE lines

(* a chunk of log text: for each of its lines, whether it is non-blank     *)
Chunks == UNION {[1..n -> BOOLEAN] : n \in 1..MaxChunkLines}

(* data.split('\n').filter(l => l.trim()).map(parseLogLine) *)
parsedLines(chunk) ==
  LET count == Cardinality({i \in 1..Len(chunk) : chunk[i]})
  IN [i \in 1..count |-> received + i]

(* an append that puts the new items in front: unshift(...items)           *)
pushFront(lines, items) == items \o lines

(* Array.prototype.push(...items) *)
push(lines, items) == lines \o items

(* the rows the log container shows at a time and the distance from the   *)
(* bottom, in rows, below which the viewer counts as at the bottom (50 px) *)
ClientRows == 1
BottomTolerance == 2

Max(a, b) == IF a >= b THEN a ELSE b
Min(a, b) == IF a <= b THEN a ELSE b

(* the container's scrollHeight and its largest scrollTop for a display    *)
scrollHeight(lines) == Max(Len(lines), ClientRows)
maxScrollTop(lines) == scrollHeight(lines) - ClientRows

(* handleScroll: scrollHeight - (scrollTop + clientHeight) < 50            *)
atBottom(top, lines) ==
  scrollHeight(lines) - (top + ClientRows) < BottomTolerance

(* the container after a render that shows `lines`: the scroll to the      *)
(* bottom if `advance`, else the old scrollTop as far as the new content   *)
(* allows; a scrollTop that has changed fires a scroll event, which        *)
(* handleScroll answers                                                    *)
scrollAfter(lines, advance) ==
  LET top == IF advance THEN maxScrollTop(lines)
             ELSE Min(scrollTop, maxScrollTop(lines))
  IN /\ scrollTop' = top
     /\ isAtBottom' = IF top # scrollTop THEN atBottom(top, lines)
                      ELSE isAtBottom

(* the auto-scroll effect on [displayLines.length] *)
autoScrollEffect ==
  scrollAfter(displayLines',
              Len(displayLines') # Len(displayLines) /\ isAtBottom)

(* a scheduleBatchUpdate that requests a frame for every chunk             *)
scheduleBatchUpdateEveryChunk ==
  [rafId |-> "scheduled", frames |-> frames + 1]

(* scheduleBatchUpdate: requestAnimationFrame unless one is recorded       *)
scheduleBatchUpdate ==
  IF rafId = "null" THEN [rafId |-> "scheduled", frames |-> frames + 1]
  ELSE [rafId |-> rafId, frames |-> frames]

(* cancelAnimationFrame(ref.current) in an effect cleanup: the callback    *)
(* will not run and the ref keeps the id                                   *)
cancelAnimationFrame(id) == IF id = "scheduled" THEN "cancelled" ELSE id

(* onLogData({sessionId, data}) *)
OnLogData(sessionId, chunk) ==
  /\ received + Len(parsedLines(chunk)) <= MaxLines
  /\ IF sessionId = ViewedSession
     THEN /\ pendingLines' = push(pendingLines, parsedLines(chunk))
          /\ rafId' = scheduleBatchUpdate.rafId
          /\ frames' = scheduleBatchUpdate.frames
          /\ received' = received + Len(parsedLines(chunk))
     ELSE UNCHANGED <<pendingLines, rafId, frames, received>>
  /\ UNCHANGED <<logLines, displayLines, scrollVars, pendingFilterLines, filterRafId,
                 activeFilters, notView>>

(* onLogError({sessionId, error}): one "[ERROR] ..." line *)
OnLogError(sessionId) ==
  /\ received + 1 <= MaxLines
  /\ IF sessionId = ViewedSession
     THEN /\ pendingLines' = Append(pendingLines, received + 1)
          /\ rafId' = scheduleBatchUpdate.rafId
          /\ frames' = scheduleBatchUpdate.frames
          /\ received' = received + 1
     ELSE UNCHANGED <<pendingLines, rafId, frames, received>>
  /\ UNCHANGED <<logLines, displayLines, scrollVars, pendingFilterLines, filterRafId,
                 activeFilters, notView>>

(* the animation-frame callback of scheduleBatchUpdate *)
AnimationFrame ==
  /\ frames > 0
  /\ logLines' = limitBuffer(push(logLines, pendingLines))
  /\ pendingLines' = <<>>
  /\ displayLines' = IF ~filterActive THEN logLines' ELSE displayLines
  /\ autoScrollEffect
  /\ rafId' = "null"
  /\ frames' = frames - 1
  /\ UNCHANGED <<pendingFilterLines, filterRafId, received, activeFilters,
                 notView>>

(* the effects of a render in which filterActive has changed: cleanups of  *)
(* the two listener effects, then the display reset                        *)
filterActiveEffects(newActiveFilters) ==
  IF (ViewedSession \in newActiveFilters) = filterActive
  THEN UNCHANGED viewVars
  ELSE /\ rafId' = cancelAnimationFrame(rafId)
       /\ frames' = IF rafId = "scheduled" THEN frames - 1 ELSE frames
       /\ filterRafId' = cancelAnimationFrame(filterRafId)
       /\ IF ViewedSession \in newActiveFilters
          THEN displayLines' = <<>> /\ pendingFilterLines' = <<>>
          ELSE displayLines' = logLines /\ UNCHANGED pendingFilterLines
       /\ autoScrollEffect
       /\ UNCHANGED <<logLines, pendingLines, received>>

(* the component is unmounted: its refs and state are gone *)
unmountViewer ==
  /\ logLines' = <<>> /\ pendingLines' = <<>> /\ rafId' = "null" /\ frames' = 0
  /\ displayLines' = <<>> /\ pendingFilterLines' = <<>>
  /\ filterRafId' = "null" /\ received' = 0
  /\ scrollTop' = 0 /\ isAtBottom' = TRUE

(* the store turns the session's filter on or off while the viewer shows   *)
FilterActiveChanged ==
  \E newActiveFilters \in {activeFilters \cup {ViewedSession},
                           activeFilters \ {ViewedSession}} :
    /\ newActiveFilters # activeFilters
    /\ activeFilters' = newActiveFilters
    /\ filterActiveEffects(newActiveFilters)
    /\ UNCHANGED notView

(* clearLogsTrigger changed *)
ClearLogs ==
  /\ logLines' = <<>> /\ pendingLines' = <<>> /\ pendingFilterLines' = <<>>
  /\ displayLines' = <<>>
  /\ autoScrollEffect
  /\ UNCHANGED <<rafId, frames, filterRafId, received, activeFilters, notView>>

NextViewer ==
  \/ \E s \in SessionIds, chunk \in Chunks : OnLogData(s, chunk)
  \/ \E s \in SessionIds : OnLogError(s)
  \/ AnimationFrame
  \/ FilterActiveChanged
  \/ ClearLogs

SpecViewer == Init /\ [][NextViewer]_vars

(* "Limit display lines" to 10,000, scaled to the model's line counts      *)
DisplayLimit == 2

(* a line the filter process wrote; the raw lines are numbered from 1      *)
FilterLine == 0

(* data.split('\n').filter(l => l.trim()).map(parseLogLine) of a chunk of  *)
(* filter output                                                           *)
parsedFilterLines(chunk) ==
  [i \in 1..Cardinality({j \in 1..Len(chunk) : chunk[j]}) |-> FilterLine]

(* scheduleFilterUpdate: requestAnimationFrame unless one is recorded      *)
scheduleFilterUpdate == IF filterRafId = "null" THEN "scheduled" ELSE filterRafId

(* onFilterData({sessionId, data}) *)
OnFilterData(sessionId, chunk) ==
  /\ Len(pendingFilterLines) + Len(parsedFilterLines(chunk)) <= MaxChunkLines
  /\ IF sessionId = ViewedSession /\ filterActive
     THEN /\ pendingFilterLines' = pendingFilterLines \o parsedFilterLines(chunk)
          /\ filterRafId' = scheduleFilterUpdate
     ELSE UNCHANGED <<pendingFilterLines, filterRafId>>
  /\ UNCHANGED <<logLines, pendingLines, rafId, frames, displayLines, scrollVars, received,
                 activeFilters, notView>>

(* the animation-frame callback of scheduleFilterUpdate *)
FilterAnimationFrame ==
  /\ filterRafId = "scheduled"
  /\ displayLines' = slice(displayLines \o pendingFilterLines, DisplayLimit)
  /\ autoScrollEffect
  /\ pendingFilterLines' = <<>>
  /\ filterRafId' = "null"
  /\ UNCHANGED <<logLines, pendingLines, rafId, frames, received, activeFilters,
                 notView>>

(* the viewer with the output of its filter *)
NextDisplay ==
  \/ \E s \in SessionIds, chunk \in Chunks : OnLogData(s, chunk)
  \/ AnimationFrame
  \/ FilterActiveChanged
  \/ ClearLogs
  \/ \E s \in SessionIds, chunk \in Chunks : OnFilterData(s, chunk)
  \/ FilterAnimationFrame

SpecDisplay == Init /\ [][NextDisplay]_vars

(* the consumer scrolls the log container: the scroll event runs           *)
(* handleScroll                                                            *)
UserScroll(top) ==
  /\ top \in 0..maxScrollTop(displayLines)
  /\ top # scrollTop
  /\ scrollTop' = top
  /\ isAtBottom' = atBottom(top, displayLines)
  /\ UNCHANGED <<logLines, pendingLines, rafId, frames, displayLines,
                 pendingFilterLines, filterRafId, received, activeFilters,
                 notView>>

(* the viewer with a consumer who scrolls *)
NextScroll ==
  \/ \E s \in SessionIds, chunk \in Chunks : OnLogData(s, chunk)
  \/ AnimationFrame
  \/ FilterActiveChanged
  \/ ClearLogs
  \/ \E s \in SessionIds, chunk \in Chunks : OnFilterData(s, chunk)
  \/ FilterAnimationFrame
  \/ \E top \in 0..BufferLimit : UserScroll(top)

SpecScroll == Init /\ [][NextScroll]_vars

(* ============================== logStore =============================== *)
SessionIdsOf(list) == {list[i].id : i \in 1..Len(list)}

(* uuidv4(): an id no session has had *)
FreshSessionIds ==
  {s \in SessionIds : s \notin SessionIdsOf(sessions) /\ lastCall[s] = "none"}

(* addSession(config) *)
addSession(id, connectionId) ==
  /\ sessions' = Append(sessions, [id |-> id, connectionId |-> connectionId])
  /\ activeSessionId' = id

(* a removeSession that leaves activeSessionId as it is                    *)
removeSessionKeepActive(id) ==
  /\ sessions' = SelectSeq(sessions, LAMBDA x : x.id # id)
  /\ activeSessionId' = activeSessionId
  /\ sessionFilters' = [sessionFilters EXCEPT ![id] = <<>>]
  /\ filterErrors' = [filterErrors EXCEPT ![id] = "none"]
  /\ activeFilters' = activeFilters \ {id}

(* removeSession(id) *)
removeSession(id) ==
  LET remaining == SelectSeq(sessions, LAMBDA x : x.id # id)
  IN /\ sessions' = remaining
     /\ activeSessionId' =
          IF activeSessionId = id
          THEN IF Len(remaining) > 0 THEN remaining[Len(remaining)].id
               ELSE "null"
          ELSE activeSessionId
     /\ sessionFilters' = [sessionFilters EXCEPT ![id] = <<>>]
     /\ filterErrors' = [filterErrors EXCEPT ![id] = "none"]
     /\ activeFilters' = activeFilters \ {id}

(* App.handleStartLog: addSession, then startLogStream over IPC *)
HandleStartLog(id, connectionId) ==
  /\ connections[connectionId].stored
  /\ id \in FreshSessionIds
  /\ addSession(id, connectionId)
  /\ startLogStream(id, connectionId)
  /\ UNCHANGED <<tunnelVars, filterVars, sessionFilters, activeFilters,
                 filterErrors, filterReplies, stopVars, eventVars, callVars, grepVars, viewVars>>

(* SplitView: closing a tab or a panel *)
RemoveSession(id) ==
  /\ id \in SessionIdsOf(sessions)
  /\ removeSession(id)
  /\ IF id = ViewedSession THEN unmountViewer ELSE UNCHANGED viewVars
  /\ UNCHANGED <<mainVars, filterVars, filterReplies, stopVars, eventVars, callVars, grepVars>>

(* setSessionFilter(sessionId, command) *)
SetSessionFilter(sessionId, cmd) ==
  /\ sessionId \in SessionIdsOf(sessions)
  /\ sessionFilters' = [sessionFilters EXCEPT ![sessionId] = cmd]
  /\ UNCHANGED <<mainVars, filterVars, sessions, activeSessionId,
                 activeFilters, filterErrors, filterReplies, stopVars, eventVars, callVars, grepVars, viewVars>>

(* startFilter(sessionId) up to the await: the main process runs           *)
(* startFilter and its result travels back                                 *)
StartFilterRequest(sessionId, outcome) ==
  /\ sessionId \in SessionIdsOf(sessions)
  /\ trim(sessionFilters[sessionId]) # <<>>
  /\ Len(filterReplies) < MaxReplies
  /\ startFilter(sessionId, sessionFilters[sessionId], outcome)
  /\ filterReplies' = Append(filterReplies,
        startFilterResult(sessionId, sessionFilters[sessionId], outcome))
  /\ UNCHANGED <<filterResult, command, lastWrite, piped, mainVars, sessions, activeSessionId,
                 sessionFilters, activeFilters, filterErrors, stopVars, eventVars, callVars, grepVars,
                 viewVars>>

(* startFilter(sessionId) after the await *)
StartFilterReply ==
  /\ filterReplies # <<>>
  /\ filterReplies' = Tail(filterReplies)
  /\ LET result == Head(filterReplies)
     IN IF result.success
        THEN /\ activeFilters' = activeFilters \cup {result.sessionId}
             /\ filterErrors' = [filterErrors EXCEPT ![result.sessionId] = "none"]
             /\ filterActiveEffects(activeFilters \cup {result.sessionId})
        ELSE /\ filterErrors' = [filterErrors EXCEPT ![result.sessionId] = result.error]
             /\ UNCHANGED <<activeFilters, viewVars>>
  /\ UNCHANGED <<mainVars, filterVars, sessions, activeSessionId,
                 sessionFilters, stopVars, eventVars, callVars, grepVars>>

(* stopSession(id), first await: stopFilter(id) reaches the main process,  *)
(* which stops the session's filter                                        *)
StopSessionFilter(id) ==
  /\ stopPc[id] = "idle"
  /\ lastCall[id] # "none"
  /\ procObjs' = stopFilterObjs(id)
  /\ filters' = stopFilterMap(id)
  /\ stopPc' = [stopPc EXCEPT ![id] = "filter"]
  /\ UNCHANGED <<filterResult, command, lastWrite, piped, mainVars, sessions, activeSessionId,
                 sessionFilters, activeFilters, filterErrors, filterReplies,
                 stopped, eventVars, callVars, grepVars, viewVars>>

(* stopSession(id): stopFilter's set() after its await, then               *)
(* stopLogStream(id) reaches the main process                              *)
StopSessionStream(id) ==
  /\ stopPc[id] = "filter"
  /\ activeFilters' = activeFilters \ {id}
  /\ filterActiveEffects(activeFilters \ {id})
  /\ stopLogStream(id)
  /\ stopPc' = [stopPc EXCEPT ![id] = "stream"]
  /\ UNCHANGED <<tunnelVars, filterVars, sessions, activeSessionId,
                 sessionFilters, filterErrors, filterReplies, stopped, eventVars, callVars, grepVars>>

(* stopSession(id) after its second await: removeSession(id)               *)
StopSessionRemove(id) ==
  /\ stopPc[id] = "stream"
  /\ removeSession(id)
  /\ IF id = ViewedSession /\ id \in SessionIdsOf(sessions)
     THEN unmountViewer ELSE UNCHANGED viewVars
  /\ stopPc' = [stopPc EXCEPT ![id] = "idle"]
  /\ stopped' = stopped \cup {id}
  /\ UNCHANGED <<mainVars, filterVars, filterReplies, eventVars, callVars, grepVars>>

(* LogViewer's onFilterError listener, of the viewer of ViewedSession      *)
OnFilterError ==
  /\ lastEvent.channel = "filter:error"
  /\ lastEvent' = NoEvent
  /\ filterErrors' = IF lastEvent.sessionId = ViewedSession
                     THEN [filterErrors EXCEPT ![ViewedSession] = lastEvent.error]
                     ELSE filterErrors
  /\ UNCHANGED <<mainVars, filterVars, sessions, activeSessionId,
                 sessionFilters, activeFilters, filterReplies, stopVars,
                 callVars, grepVars, viewVars>>

(* the filter service with the exit codes of its processes *)
NextExit ==
  \/ \E s \in SessionIds, cmd \in SampleCommands, outcome \in SpawnOutcomes :
       StartFilter(s, cmd, outcome)
  \/ \E s \in SessionIds : StopFilter(s)
  \/ \E p \in ProcIds, code \in ExitCodes : ProcExitCode(p, code)
  \/ OnFilterError

SpecExit == Init /\ [][NextExit]_vars

(* k8s:logs:start, its onError callback: the error goes to the renderer   *)
(* tagged with the sessionId of the call                                   *)
onLogErrorUntagged(sessionId) ==
  [channel |-> "k8s:logs:error", sessionId |-> ViewedSession,
   error |-> "stream"]

onLogError(sessionId) ==
  [channel |-> "k8s:logs:error", sessionId |-> sessionId, error |-> "stream"]

(* log.log rejected, with the report of the catch block                    *)
LogOpenFailedError(st) ==
  /\ logOpenFailed(st)
  /\ lastEvent' = onLogError(streamObjs[st].sessionId)
  /\ UNCHANGED <<tunnelVars, filterVars, storeVars, callVars, grepVars, viewVars>>

(* stream.on('error', (err) => onError(err)) of a request under way        *)
StreamError(st) ==
  /\ streamObjs[st].state \in {"opening", "live"}
  /\ lastEvent' = onLogError(streamObjs[st].sessionId)
  /\ UNCHANGED <<mainVars, filterVars, storeVars, callVars, grepVars, viewVars>>

(* how many error lines the viewer is sent                                 *)
MaxErrorLines == 1

(* LogViewer's onLogError listener, of the viewer of ViewedSession         *)
OnLogErrorEvent ==
  /\ lastEvent.channel = "k8s:logs:error"
  /\ received < MaxErrorLines
  /\ lastEvent' = NoEvent
  /\ IF lastEvent.sessionId = ViewedSession
     THEN /\ pendingLines' = Append(pendingLines, received + 1)
          /\ rafId' = scheduleBatchUpdate.rafId
          /\ frames' = scheduleBatchUpdate.frames
          /\ received' = received + 1
     ELSE UNCHANGED <<pendingLines, rafId, frames, received>>
  /\ UNCHANGED <<logLines, displayLines, scrollVars, pendingFilterLines, filterRafId,
                 mainVars, filterVars, storeVars, callVars, grepVars>>

(* startFilter with the report of a spawn that failed on the next tick     *)
StartFilterReport(sessionId, cmd, outcome) ==
  /\ startFilter(sessionId, cmd, outcome)
  /\ filterResult' = startFilterResult(sessionId, cmd, outcome)
  /\ lastEvent' = IF startFilterResult(sessionId, cmd, outcome).success
                     /\ outcome = "error event"
                  THEN onFilterError(sessionId, "spawn error")
                  ELSE lastEvent
  /\ UNCHANGED <<command, lastWrite, piped, mainVars, storeVars, callVars, grepVars, viewVars>>

(* how many log requests and filter processes a run of the failure cases  *)
(* starts in all: one for each session and one restart                     *)
MaxStarts == Cardinality(SessionIds) + 1

Started ==
  Cardinality(StreamIds \ UnusedStreams) + Cardinality(ProcIds \ UnusedProcs)

(* a command that passes validation and one that does not *)
FailureCommands == { <<"grep", " ", "x">>, <<"rm", " ", "x">> }

(* the failures of streams and filters, over one connection *)
NextFailures ==
  \/ \E config \in PlainConfigs : ConnectionAddDirect("c1", config)
  \/ \E s \in SessionIds : Started < MaxStarts /\ LogsStart(s, "c1")
  \/ \E st \in StreamIds : LogOpened(st)
  \/ \E st \in StreamIds : LogOpenFailedError(st)
  \/ \E st \in StreamIds : StreamError(st)
  \/ OnLogErrorEvent
  \/ \E s \in SessionIds, cmd \in FailureCommands, outcome \in SpawnOutcomes :
       Started < MaxStarts /\ StartFilterReport(s, cmd, outcome)
  \/ \E p \in ProcIds, code \in ExitCodes : ProcExitCode(p, code)
  \/ OnFilterError

SpecFailures == Init /\ [][NextFailures]_vars

(* sessions that are started and stopped, over one connection *)
NextStop ==
  \/ \E config \in PlainConfigs : ConnectionAddDirect("c1", config)
  \/ \E s \in SessionIds : HandleStartLog(s, "c1")
  \/ \E st \in StreamIds : LogOpened(st)
  \/ \E st \in StreamIds : LogOpenFailed(st)
  \/ \E s \in SessionIds : StopSessionFilter(s)
  \/ \E s \in SessionIds : StopSessionStream(s)
  \/ \E s \in SessionIds : StopSessionRemove(s)

SpecStop == Init /\ [][NextStop]_vars

(* the renderer's sessions and their remote log streams *)
NextSession ==
  \/ \E id \in ConnIds, config \in PlainConfigs : ConnectionAddDirect(id, config)
  \/ \E s \in SessionIds, c \in ConnIds : HandleStartLog(s, c)
  \/ \E st \in StreamIds : LogOpened(st)
  \/ \E st \in StreamIds : LogOpenFailed(st)
  \/ \E s \in SessionIds : RemoveSession(s)

SpecSession == Init /\ [][NextSession]_vars

(* the renderer's sessions and their shell filters, over one connection *)
NextStoreFilter ==
  \/ \E config \in PlainConfigs : ConnectionAddDirect("c1", config)
  \/ \E s \in SessionIds : HandleStartLog(s, "c1")
  \/ \E s \in SessionIds : RemoveSession(s)
  \/ \E s \in SessionIds, cmd \in SampleCommands : SetSessionFilter(s, cmd)
  \/ \E s \in SessionIds, outcome \in SpawnOutcomes : StartFilterRequest(s, outcome)
  \/ StartFilterReply
  \/ \E p \in ProcIds : ProcExit(p)

SpecStoreFilter == Init /\ [][NextStoreFilter]_vars

(* LogToolbar.handleFilterStop -> stopFilter(sessionId), up to its await:  *)
(* the main process stops the session's filter                             *)
StopFilterRequest(id) ==
  /\ id \in SessionIdsOf(sessions)
  /\ stopPc[id] = "idle"
  /\ procObjs' = stopFilterObjs(id)
  /\ filters' = stopFilterMap(id)
  /\ stopPc' = [stopPc EXCEPT ![id] = "stopFilter"]
  /\ UNCHANGED <<filterResult, command, lastWrite, piped, mainVars, sessions,
                 activeSessionId, sessionFilters, activeFilters, filterErrors,
                 filterReplies, stopped, eventVars, callVars, grepVars, viewVars>>

(* stopFilter(sessionId) after its await: the set() of the store           *)
StopFilterDone(id) ==
  /\ stopPc[id] = "stopFilter"
  /\ activeFilters' = activeFilters \ {id}
  /\ filterActiveEffects(activeFilters \ {id})
  /\ stopPc' = [stopPc EXCEPT ![id] = "idle"]
  /\ UNCHANGED <<mainVars, filterVars, sessions, activeSessionId,
                 sessionFilters, filterErrors, filterReplies, stopped,
                 eventVars, callVars, grepVars>>

(* ------------------------- stopAllSessions ----------------------------- *)
(* stopFilter(sessionId) of the main process for every id of a set         *)
stopFiltersObjs(ids) ==
  [p \in ProcIds |->
     IF \E s \in ids : filters[s].process = p /\ ProcLive(p)
     THEN [procObjs[p] EXCEPT !.state = "killed"]
     ELSE procObjs[p]]

stopFiltersMap(ids) ==
  [s \in SessionIds |-> IF s \in ids THEN NoFilter ELSE filters[s]]

(* stopAllSessions() up to its awaits: sessions.map starts one chain for   *)
(* every listed session, and each chain's stopShellFilter call reaches the *)
(* main process                                                            *)
StopAllSessions ==
  /\ sessions # <<>>
  /\ \A s \in SessionIds : stopPc[s] = "idle"
  /\ procObjs' = stopFiltersObjs(SessionIdsOf(sessions))
  /\ filters' = stopFiltersMap(SessionIdsOf(sessions))
  /\ stopPc' = [s \in SessionIds |->
                  IF s \in SessionIdsOf(sessions) THEN "allFilter" ELSE "idle"]
  /\ UNCHANGED <<filterResult, command, lastWrite, piped, mainVars, sessions,
                 activeSessionId, sessionFilters, activeFilters, filterErrors,
                 filterReplies, stopped, eventVars, callVars, grepVars,
                 viewVars>>

(* one chain of stopAllSessions after its first await: stopFilter's set(), *)
(* then stopLogStream(id) reaches the main process                         *)
StopAllStream(id) ==
  /\ stopPc[id] = "allFilter"
  /\ activeFilters' = activeFilters \ {id}
  /\ filterActiveEffects(activeFilters \ {id})
  /\ stopLogStream(id)
  /\ stopPc' = [stopPc EXCEPT ![id] = "allStream"]
  /\ UNCHANGED <<tunnelVars, filterVars, sessions, activeSessionId,
                 sessionFilters, filterErrors, filterReplies, stopped,
                 eventVars, callVars, grepVars>>

(* stopAllSessions() after Promise.all: the store is emptied               *)
StopAllDone ==
  /\ \E s \in SessionIds : stopPc[s] = "allStream"
  /\ \A s \in SessionIds : stopPc[s] \in {"idle", "allStream"}
  /\ sessions' = <<>>
  /\ activeSessionId' = "null"
  /\ sessionFilters' = [s \in SessionIds |-> <<>>]
  /\ activeFilters' = {}
  /\ filterErrors' = [s \in SessionIds |-> "none"]
  /\ stopPc' = [s \in SessionIds |-> "idle"]
  /\ IF ViewedSession \in SessionIdsOf(sessions)
     THEN unmountViewer ELSE UNCHANGED viewVars
  /\ UNCHANGED <<mainVars, filterVars, filterReplies, stopped, eventVars,
                 callVars, grepVars>>

(* the viewer of ViewedSession is mounted while its session is listed      *)
viewerMounted == ViewedSession \in SessionIdsOf(sessions)

(* a chunk of the remote log of sessionId reaches the renderer: the        *)
(* onLogData listener of the mounted viewer, with the writeToFilter call   *)
(* it makes in the main process                                            *)
OnLogDataChunk(sessionId, chunk, outcome) ==
  /\ \E st \in StreamIds : /\ streamObjs[st].sessionId = sessionId
                            /\ streamObjs[st].state = "live"
  /\ viewerMounted
  /\ received + Len(parsedLines(chunk)) <= MaxLines
  /\ IF sessionId = ViewedSession
     THEN /\ pendingLines' = pendingLines \o parsedLines(chunk)
          /\ rafId' = scheduleBatchUpdate.rafId
          /\ frames' = scheduleBatchUpdate.frames
          /\ received' = received + Len(parsedLines(chunk))
          /\ lastWrite' = IF filterActive
                          THEN writeToFilter(ViewedSession, outcome)
                          ELSE lastWrite
     ELSE UNCHANGED <<pendingLines, rafId, frames, received, lastWrite>>
  /\ UNCHANGED <<logLines, displayLines, scrollVars, pendingFilterLines, filterRafId,
                 mainVars, filters, procObjs, filterResult, command, piped,
                 storeVars, eventVars, callVars, grepVars>>

(* the command the sessions are filtered with *)
FeedCommands == { <<"grep", " ", "x">> }

(* two sessions with their streams, and the filter and the viewer of       *)
(* ViewedSession, over one connection                                      *)
NextFeed ==
  \/ \E config \in PlainConfigs : ConnectionAddDirect("c1", config)
  \/ \E s \in SessionIds : HandleStartLog(s, "c1")
  \/ \E st \in StreamIds : LogOpened(st)
  \/ \E cmd \in FeedCommands : SetSessionFilter(ViewedSession, cmd)
  \/ \E outcome \in SpawnOutcomes : StartFilterRequest(ViewedSession, outcome)
  \/ StartFilterReply
  \/ StopFilterRequest(ViewedSession)
  \/ StopFilterDone(ViewedSession)
  \/ \E p \in ProcIds : ProcExit(p)
  \/ \E s \in SessionIds, chunk \in Chunks, outcome \in WriteOutcomes :
       OnLogDataChunk(s, chunk, outcome)

SpecFeed == Init /\ [][NextFeed]_vars

(* sessions that are started, filtered and stopped all at once, over one   *)
(* connection                                                              *)
NextBulkStop ==
  \/ \E config \in PlainConfigs : ConnectionAddDirect("c1", config)
  \/ \E s \in SessionIds : HandleStartLog(s, "c1")
  \/ \E st \in StreamIds : LogOpened(st)
  \/ \E st \in StreamIds : LogOpenFailed(st)
  \/ \E s \in SessionIds, cmd \in FeedCommands : SetSessionFilter(s, cmd)
  \/ \E s \in SessionIds : StartFilterRequest(s, "spawned")
  \/ StartFilterReply
  \/ StopAllSessions
  \/ \E s \in SessionIds : StopAllStream(s)
  \/ StopAllDone

SpecBulkStop == Init /\ [][NextBulkStop]_vars

(* SplitView: a click on the tab or the panel of a listed session          *)
SetActiveSession(id) ==
  /\ id \in SessionIdsOf(sessions)
  /\ activeSessionId' = id
  /\ UNCHANGED <<mainVars, filterVars, sessions, sessionFilters,
                 activeFilters, filterErrors, filterReplies, stopVars,
                 eventVars, callVars, grepVars, viewVars>>

(* the session list with every way of adding, selecting and removing       *)
NextActive ==
  \/ \E config \in PlainConfigs : ConnectionAddDirect("c1", config)
  \/ \E s \in SessionIds : HandleStartLog(s, "c1")
  \/ \E st \in StreamIds : LogOpened(st)
  \/ \E s \in SessionIds : SetActiveSession(s)
  \/ \E s \in SessionIds : RemoveSession(s)
  \/ \E s \in SessionIds : StopSessionFilter(s)
  \/ \E s \in SessionIds : StopSessionStream(s)
  \/ \E s \in SessionIds : StopSessionRemove(s)
  \/ StopAllSessions
  \/ \E s \in SessionIds : StopAllStream(s)
  \/ StopAllDone

SpecActive == Init /\ [][NextActive]_vars

(* ------------------------- the filtered feed --------------------------- *)
(* how many lines the remote log of the viewed session has                 *)
ScenarioLines == 3

(* the lines of the remote log that contain the pattern of the filter      *)
FooLines == {2}

(* what grep writes to stdout for the lines it reads                       *)
grepOutput(lines) == SelectSeq(lines, LAMBDA l : l \in FooLines)

(* the lines in the pipe of process p, and the rest                        *)
pipedTo(p) ==
  LET mine == SelectSeq(piped, LAMBDA e : e.process = p)
  IN [i \in 1..Len(mine) |-> mine[i].line]
pipedElsewhere(p) == SelectSeq(piped, LAMBDA e : e.process # p)

(* onLogData of the mounted viewer for a chunk of its own session, with    *)
(* the bytes that filter.stdin.write(data) puts into the pipe              *)
OnLogDataPiped(chunk) ==
  /\ \E st \in StreamIds : /\ streamObjs[st].sessionId = ViewedSession
                            /\ streamObjs[st].state = "live"
  /\ viewerMounted
  /\ received + Len(parsedLines(chunk)) <= ScenarioLines
  /\ pendingLines' = pendingLines \o parsedLines(chunk)
  /\ rafId' = scheduleBatchUpdate.rafId
  /\ frames' = scheduleBatchUpdate.frames
  /\ received' = received + Len(parsedLines(chunk))
  /\ IF filterActive
     THEN /\ lastWrite' = writeToFilter(ViewedSession, "written")
          /\ piped' = IF writeToFilter(ViewedSession, "written").returned
                      THEN piped \o
                           [i \in 1..Len(parsedLines(chunk)) |->
                              [process |-> filters[ViewedSession].process,
                               line |-> parsedLines(chunk)[i]]]
                      ELSE piped
     ELSE UNCHANGED <<lastWrite, piped>>
  /\ UNCHANGED <<logLines, displayLines, scrollVars, pendingFilterLines, filterRafId,
                 mainVars, filters, procObjs, filterResult, command,
                 storeVars, eventVars, callVars, grepVars>>

(* the filter process p reads its pipe and writes the matching lines to    *)
(* stdout: proc.stdout.on('data') -> onData -> the viewer's onFilterData   *)
FilterOutput(p) ==
  /\ ProcLive(p)
  /\ pipedTo(p) # <<>>
  /\ piped' = pipedElsewhere(p)
  /\ IF procObjs[p].sessionId = ViewedSession /\ filterActive
        /\ grepOutput(pipedTo(p)) # <<>>
     THEN /\ pendingFilterLines' = pendingFilterLines \o grepOutput(pipedTo(p))
          /\ filterRafId' = scheduleFilterUpdate
     ELSE UNCHANGED <<pendingFilterLines, filterRafId>>
  /\ UNCHANGED <<logLines, pendingLines, rafId, frames, displayLines, scrollVars, received,
                 mainVars, filters, procObjs, filterResult, command,
                 lastWrite, storeVars, eventVars, callVars, grepVars>>

(* one session with its stream, its viewer and its shell filter *)
NextScenario ==
  \/ \E config \in PlainConfigs : ConnectionAddDirect("c1", config)
  \/ HandleStartLog(ViewedSession, "c1")
  \/ \E st \in StreamIds : LogOpened(st)
  \/ \E chunk \in Chunks : OnLogDataPiped(chunk)
  \/ AnimationFrame
  \/ \E cmd \in FeedCommands : SetSessionFilter(ViewedSession, cmd)
  \/ \E outcome \in SpawnOutcomes : StartFilterRequest(ViewedSession, outcome)
  \/ StartFilterReply
  \/ StopFilterRequest(ViewedSession)
  \/ StopFilterDone(ViewedSession)
  \/ \E p \in ProcIds : FilterOutput(p)
  \/ FilterAnimationFrame

SpecScenario == Init /\ [][NextScenario]_vars

(* a filter process that stopFilter has killed and whose exit has not been *)
(* observed yet: what it wrote to stdout before the signal took effect is  *)
(* still read from the pipe, and proc.stdout.on('data') relays it under    *)
(* the session id as before                                                *)
LateFilterOutput(p) ==
  /\ procObjs[p].state = "killed"
  /\ pipedTo(p) # <<>>
  /\ piped' = pipedElsewhere(p)
  /\ IF procObjs[p].sessionId = ViewedSession /\ filterActive
        /\ grepOutput(pipedTo(p)) # <<>>
     THEN /\ pendingFilterLines' = pendingFilterLines \o grepOutput(pipedTo(p))
          /\ filterRafId' = scheduleFilterUpdate
     ELSE UNCHANGED <<pendingFilterLines, filterRafId>>
  /\ UNCHANGED <<logLines, pendingLines, rafId, frames, displayLines, scrollVars, received,
                 mainVars, filters, procObjs, filterResult, command,
                 lastWrite, storeVars, eventVars, callVars, grepVars>>

(* one session whose shell filter is replaced while it runs *)
NextRelay ==
  \/ \E config \in PlainConfigs : ConnectionAddDirect("c1", config)
  \/ HandleStartLog(ViewedSession, "c1")
  \/ \E st \in StreamIds : LogOpened(st)
  \/ \E chunk \in Chunks : OnLogDataPiped(chunk)
  \/ AnimationFrame
  \/ \E cmd \in FeedCommands : SetSessionFilter(ViewedSession, cmd)
  \/ StartFilterRequest(ViewedSession, "spawned")
  \/ StartFilterReply
  \/ StopFilterRequest(ViewedSession)
  \/ StopFilterDone(ViewedSession)
  \/ \E p \in ProcIds : FilterOutput(p)
  \/ \E p \in ProcIds : LateFilterOutput(p)
  \/ FilterAnimationFrame

SpecRelay == Init /\ [][NextRelay]_vars

(* ---------------------- the grep-pipeline filter ----------------------- *)
notCall == <<mainVars, filterVars, storeVars, eventVars, grepVars, viewVars>>

(* how many stages a parsed filter list has at most                        *)
MaxStages == 2

(* the patterns of the stages; a line is the set of patterns that match it *)
GrepPatterns == {"foo", "bar"}
GrepLines == SUBSET GrepPatterns

(* filter.pattern.test(line) of a RegExp without the g flag                *)
test(pattern, line) == pattern \in line

GrepStages == [pattern : GrepPatterns, exclude : BOOLEAN]
GrepFilterLists == UNION {[1..n -> GrepStages] : n \in 0..MaxStages}

(* an applyGrepFilter that lets a line pass as soon as one stage passes    *)
applyGrepFilterAnyStage(line, stages) ==
  \/ Len(stages) = 0
  \/ \E i \in 1..Len(stages) :
       test(stages[i].pattern, line) # stages[i].exclude

(* the for loop of applyGrepFilter *)
RECURSIVE applyGrepFilterLoop(_, _)
applyGrepFilterLoop(line, stages) ==
  IF stages = <<>> THEN TRUE
  ELSE LET filter == Head(stages)
           matches == test(filter.pattern, line)
       IN IF filter.exclude /\ matches THEN FALSE
          ELSE IF ~filter.exclude /\ ~matches THEN FALSE
          ELSE applyGrepFilterLoop(line, Tail(stages))

applyGrepFilter(line, stages) ==
  IF Len(stages) = 0 THEN TRUE ELSE applyGrepFilterLoop(line, stages)

InitGrep ==
  /\ InitServices
  /\ command = <<>>
  /\ callArgs \in [fn : {"applyGrepFilter"}, line : GrepLines,
                    filters : GrepFilterLists]
  /\ callValue = NoCall

ApplyGrepFilter ==
  /\ callArgs.fn = "applyGrepFilter"
  /\ callValue = NoCall
  /\ callValue' = [fn |-> "applyGrepFilter",
                   value |-> applyGrepFilter(callArgs.line, callArgs.filters)]
  /\ UNCHANGED <<callArgs, notCall>>

NextGrep == ApplyGrepFilter

SpecGrep == InitGrep /\ [][NextGrep]_vars

(* -------------------------- parseGrepPipeline -------------------------- *)
(* A filter expression is a sequence of lexical pieces, as a command is.   *)
(* how many pipe stages an expression has at most                          *)
MaxExprStages == 2

GrepFlags == {"-v", "-V"}
IsGrep(a) == a \in {"grep", "GREP"}

StageTexts ==
  { <<>>, <<" ">>, <<"grep">>, <<"grep", "foo">>,
    <<"grep", " ", "foo">>,
    <<" ", "grep", " ", " ", "bar", " ">>,
    <<"grep", " ", "-v", " ", "foo">>,
    <<"grep", " ", "-v">>,
    <<"GREP", " ", "-V", " ", "\"", "foo", " ", "bar", "\"">>,
    <<"grep", " ", "'", "bar", "'">>,
    <<"grep", " ", "\"", "foo">>,
    <<"grep", " ", "foo", " ", "bar">>,
    <<"grep", " ", "(">>,
    <<"cat", " ", "foo">> }

RECURSIVE joinPipe(_)
joinPipe(parts) ==
  IF Len(parts) = 1 THEN parts[1]
  ELSE parts[1] \o <<"|">> \o joinPipe(Tail(parts))

FilterExprs ==
  {<<>>} \cup
  UNION { {joinPipe(parts) : parts \in [1..n -> StageTexts]}
          : n \in 1..MaxExprStages }

NoMatch == [matched |-> FALSE, exclude |-> FALSE, source |-> <<>>]

(* "([^"]+)" and '([^']+)' : what is between the quotes, or <<>>           *)
quoted(text, q) ==
  IF /\ Len(text) >= 3 /\ text[1] = q /\ text[Len(text)] = q
     /\ \A i \in 2..(Len(text) - 1) : text[i] # q
  THEN SubSeq(text, 2, Len(text) - 1) ELSE <<>>

(* (?:"([^"]+)"|'([^']+)'|(\S+))$ : grepMatch[2] || grepMatch[3] ||        *)
(* grepMatch[4], or <<>> when the text is none of the three                *)
patternGroup(text) ==
  IF quoted(text, "\"") # <<>> THEN quoted(text, "\"")
  ELSE IF quoted(text, "'") # <<>> THEN quoted(text, "'")
  ELSE IF text # <<>> /\ \A i \in 1..Len(text) : text[i] \notin Spaces
  THEN text ELSE <<>>

(* part.match(/^grep\s+(-v\s+)?(?:"([^"]+)"|'([^']+)'|(\S+))$/i): the      *)
(* optional group is tried first and given up when the rest does not match *)
grepMatch(part) ==
  IF ~(Len(part) >= 2 /\ IsGrep(part[1]) /\ part[2] \in Spaces) THEN NoMatch
  ELSE LET rest == trimStart(Tail(part))
           afterFlag == trimStart(Tail(rest))
       IN IF /\ Len(rest) >= 2 /\ rest[1] \in GrepFlags /\ rest[2] \in Spaces
             /\ patternGroup(afterFlag) # <<>>
          THEN [matched |-> TRUE, exclude |-> TRUE,
                source |-> patternGroup(afterFlag)]
          ELSE IF patternGroup(rest) # <<>>
          THEN [matched |-> TRUE, exclude |-> FALSE,
                source |-> patternGroup(rest)]
          ELSE NoMatch

(* new RegExp(pattern, 'i') throws on a pattern that is no regular         *)
(* expression                                                              *)
compiles(source) == \A i \in 1..Len(source) : source[i] # "("

(* the RegExp built in the try or, for a pattern that does not compile, in *)
(* the catch from the escaped pattern: which of the patterns it is         *)
RegExpOf(source) ==
  IF compiles(source) /\ Len(source) = 1 /\ source[1] \in GrepPatterns
  THEN source[1] ELSE "other"

(* the for loop of parseGrepPipeline *)
RECURSIVE parseGrepParts(_)
parseGrepParts(parts) ==
  IF parts = <<>> THEN <<>>
  ELSE LET part == Head(parts)
           m == grepMatch(part)
       IN IF part = <<>> \/ ~m.matched THEN parseGrepParts(Tail(parts))
          ELSE <<[pattern |-> RegExpOf(m.source), exclude |-> m.exclude,
                  source |-> m.source]>>
               \o parseGrepParts(Tail(parts))

trimAll(parts) == [i \in 1..Len(parts) |-> trim(parts[i])]

parseGrepPipeline(filter) ==
  IF trim(filter) = <<>> THEN <<>>
  ELSE parseGrepParts(trimAll(splitPipe(filter)))

InitParse ==
  /\ InitServices
  /\ command = <<>>
  /\ callArgs \in [fn : {"parseGrepPipeline"}, filter : FilterExprs]
  /\ callValue = NoCall

ParseGrepPipeline ==
  /\ callArgs.fn = "parseGrepPipeline"
  /\ callValue = NoCall
  /\ callValue' = [fn |-> "parseGrepPipeline",
                   value |-> parseGrepPipeline(callArgs.filter)]
  /\ UNCHANGED <<callArgs, notCall>>

NextParse == ParseGrepPipeline

SpecParse == InitParse /\ [][NextParse]_vars

(* --------------- LogViewer with the pattern pipeline ------------------- *)
notGrep == <<mainVars, filterVars, storeVars, eventVars, callVars>>

(* the lines that contain "bar", next to FooLines *)
BarLines == {1, 2, 4}

(* the text of the line with a given number: the patterns that match it    *)
LineText(n) ==
  {pattern \in GrepPatterns :
     \/ pattern = "foo" /\ n \in FooLines
     \/ pattern = "bar" /\ n \in BarLines}

(* the filter expressions the toolbar submits *)
ViewerExprs ==
  { <<>>,
    <<"grep", " ", "foo">>,
    <<"grep", " ", "-v", " ", "bar">>,
    <<"grep", " ", "bar", "|", "grep", " ", "-v", " ", "foo">> }

(* lines.filter(line => applyGrepFilter(line.raw, filters)) *)
filterLines(lines, stages) ==
  SelectSeq(lines, LAMBDA n : applyGrepFilter(LineText(n), stages))

(* the 100 ms of applyFilterAndUpdate's timer, in frame periods; scaled    *)
DebounceFrames == 2

(* window.setTimeout(..., 100): when the timer set now is due               *)
setTimeout == DebounceFrames

(* a render with a new grepFilter: the effect that parses it into          *)
(* grepFiltersRef, then the effect that calls applyFilterAndUpdate, which  *)
(* restarts the 100 ms timer                                               *)
GrepFilterChanged(expr) ==
  /\ expr # grepFilter
  /\ grepFilter' = expr
  /\ grepFiltersRef' = parseGrepPipeline(expr)
  /\ filterTimer' = TRUE
  /\ timerDue' = setTimeout
  /\ UNCHANGED <<viewVars, notGrep>>

(* the timer callback of applyFilterAndUpdate *)
FilterTimer ==
  /\ filterTimer
  /\ displayLines' = filterLines(logLines, grepFiltersRef)
  /\ autoScrollEffect
  /\ filterTimer' = FALSE
  /\ timerDue' = 0
  /\ UNCHANGED <<logLines, pendingLines, rafId, frames, pendingFilterLines,
                 filterRafId, received, grepFilter, grepFiltersRef, notGrep>>

(* the animation-frame callback of this viewer's scheduleBatchUpdate: it   *)
(* ends with applyFilterAndUpdate                                          *)
PatternAnimationFrame ==
  /\ frames > 0
  /\ logLines' = limitBuffer(push(logLines, pendingLines))
  /\ pendingLines' = <<>>
  /\ filterTimer' = TRUE
  /\ timerDue' = setTimeout
  /\ rafId' = "null"
  /\ frames' = frames - 1
  /\ UNCHANGED <<displayLines, scrollVars, pendingFilterLines, filterRafId, received,
                 grepFilter, grepFiltersRef, notGrep>>

NextPattern ==
  \/ \E s \in SessionIds, chunk \in Chunks : OnLogData(s, chunk)
  \/ PatternAnimationFrame
  \/ \E expr \in ViewerExprs : GrepFilterChanged(expr)
  \/ FilterTimer

SpecPattern == Init /\ [][NextPattern]_vars

(* ------------- the pattern viewer with the passing of time ------------- *)
(* onLogData of a stream that does not end: the numbering of its lines     *)
(* starts over, and the queue holds at most one chunk                      *)
SteadyLogData(chunk) ==
  /\ Len(pendingLines) + Len(parsedLines(chunk)) <= MaxChunkLines
  /\ pendingLines' = push(pendingLines, parsedLines(chunk))
  /\ rafId' = scheduleBatchUpdate.rafId
  /\ frames' = scheduleBatchUpdate.frames
  /\ received' = IF received + Len(parsedLines(chunk)) + MaxChunkLines > MaxLines
                 THEN 0
                 ELSE received + Len(parsedLines(chunk))
  /\ UNCHANGED <<logLines, displayLines, scrollVars, pendingFilterLines,
                 filterRafId, grepVars, notGrep>>

(* the timer callback of applyFilterAndUpdate, run when its 100 ms are up  *)
FilterTimerDue ==
  /\ timerDue = 0
  /\ FilterTimer

(* the end of a frame period for which a frame was requested: the browser *)
(* runs the callback of scheduleBatchUpdate, after the timers that were    *)
(* due                                                                     *)
FrameDue ==
  /\ ~(filterTimer /\ timerDue = 0)
  /\ PatternAnimationFrame

(* the end of a frame period for which no frame was requested: a timer     *)
(* that is set comes one period closer                                     *)
Tick ==
  /\ frames = 0
  /\ filterTimer
  /\ timerDue > 0
  /\ timerDue' = timerDue - 1
  /\ UNCHANGED <<grepFilter, grepFiltersRef, filterTimer, viewVars, notGrep>>

NextDebounce ==
  \/ \E chunk \in Chunks : SteadyLogData(chunk)
  \/ FrameDue
  \/ FilterTimerDue
  \/ Tick

(* frames are run, timers fire when due and time passes *)
FairDebounce ==
  /\ WF_vars(FrameDue)
  /\ WF_vars(FilterTimerDue)
  /\ WF_vars(Tick)

SpecDebounce == Init /\ [][NextDebounce]_vars /\ FairDebounce

(* ------------------ LogViewer that writes to a terminal ---------------- *)
(* logBufferRef is pendingLines here and the lines the terminal holds are  *)
(* displayLines; there is no buffer of all lines.                          *)

(* a render with a new grepFilter: only grepFiltersRef is updated          *)
TerminalFilterChanged(expr) ==
  /\ expr # grepFilter
  /\ grepFilter' = expr
  /\ grepFiltersRef' = parseGrepPipeline(expr)
  /\ UNCHANGED <<filterTimer, timerDue, viewVars, notGrep>>

(* scheduleFlush: requestAnimationFrame(flushLogs) unless one is recorded  *)
scheduleFlush ==
  IF rafId = "null" THEN [rafId |-> "scheduled", frames |-> frames + 1]
  ELSE [rafId |-> rafId, frames |-> frames]

(* onLogData of the terminal viewer: the lines that pass the filters of    *)
(* the moment are buffered for the next write                              *)
TerminalLogData(sessionId, chunk) ==
  /\ received + Len(parsedLines(chunk)) <= MaxLines
  /\ IF sessionId = ViewedSession
     THEN /\ pendingLines' =
               push(pendingLines, filterLines(parsedLines(chunk), grepFiltersRef))
          /\ rafId' = scheduleFlush.rafId
          /\ frames' = scheduleFlush.frames
          /\ received' = received + Len(parsedLines(chunk))
     ELSE UNCHANGED <<pendingLines, rafId, frames, received>>
  /\ UNCHANGED <<logLines, displayLines, scrollVars, pendingFilterLines, filterRafId,
                 grepVars, notGrep>>

(* flushLogs: terminal.write of the buffered lines; the terminal keeps     *)
(* `scrollback` lines                                                      *)
FlushLogs ==
  /\ frames > 0
  /\ displayLines' = IF pendingLines = <<>> THEN displayLines
                     ELSE slice(push(displayLines, pendingLines), BufferLimit)
  /\ scrollAfter(displayLines', pendingLines # <<>> /\ isAtBottom)
  /\ pendingLines' = <<>>
  /\ rafId' = "null"
  /\ frames' = frames - 1
  /\ UNCHANGED <<logLines, pendingFilterLines, filterRafId, received,
                 grepVars, notGrep>>

NextTerminal ==
  \/ \E s \in SessionIds, chunk \in Chunks : TerminalLogData(s, chunk)
  \/ FlushLogs
  \/ \E expr \in ViewerExprs : TerminalFilterChanged(expr)

SpecTerminal == Init /\ [][NextTerminal]_vars

(* ----------------------------- parseLogLine ---------------------------- *)
(* A log line is a sequence of lexical pieces: "DATE" is dddd-dd-dd,       *)
(* "TIME" dd:dd:dd, "FRAC" a fraction such as .123, "Z" a zone.            *)
MaxStampLen == 4

StampPieces == {"DATE", "T", " ", "TIME", "FRAC", "Z", "[", "]"}

(* what may follow the first pieces of a line *)
Messages ==
  { <<>>, <<" ", "info">>, <<" ", "Error">>, <<"Z", " ", "Error">>,
    <<"]", " ", "failed">>, <<"FATAL">> }

LogLineTexts ==
  { prefix \o message :
      prefix \in UNION {[1..n -> StampPieces] : n \in 0..MaxStampLen},
      message \in Messages }

(* the number of characters of a piece *)
Width(piece) ==
  CASE piece = "DATE" -> 10
    [] piece = "TIME" -> 8
    [] piece \in {"FRAC", "info"} -> 4
    [] piece \in {"Error", "FATAL"} -> 5
    [] piece = "failed" -> 6
    [] OTHER -> 1

(* String.prototype.length *)
RECURSIVE length(_)
length(str) == IF str = <<>> THEN 0 ELSE Width(Head(str)) + length(Tail(str))

(* the first `count` pieces of the line, extended by an optional piece     *)
optional(line, count, pieces) ==
  IF Len(line) > count /\ line[count + 1] \in pieces THEN count + 1 ELSE count

(* an isoPattern without its zone part *)
isoPatternNoZone(line) ==
  IF Len(line) >= 3 /\ SubSeq(line, 1, 3) = <<"DATE", "T", "TIME">>
  THEN SubSeq(line, 1, optional(line, 3, {"FRAC"}))
  ELSE <<>>

(* line.match(isoPattern): match[1], or <<>> for no match *)
isoPattern(line) ==
  IF Len(line) >= 3 /\ SubSeq(line, 1, 3) = <<"DATE", "T", "TIME">>
  THEN SubSeq(line, 1, optional(line, optional(line, 3, {"FRAC"}), {"Z"}))
  ELSE <<>>

(* line.match(simplePattern) *)
simplePattern(line) ==
  IF Len(line) >= 3 /\ SubSeq(line, 1, 3) = <<"DATE", " ", "TIME">>
  THEN SubSeq(line, 1, optional(line, 3, {"FRAC"}))
  ELSE <<>>

(* line.match(bracketPattern) *)
bracketPattern(line) ==
  IF Len(line) >= 4 /\ SubSeq(line, 1, 4) = <<"[", "DATE", " ", "TIME">>
  THEN LET end == optional(line, 4, {"FRAC"})
       IN IF Len(line) > end /\ line[end + 1] = "]"
          THEN SubSeq(line, 1, end + 1) ELSE <<>>
  ELSE <<>>

(* /error|exception|fail|fatal/i.test(line) *)
hasErrorIndicator(line) ==
  \E i \in 1..Len(line) : line[i] \in {"Error", "failed", "FATAL"}

(* the for loop over [isoPattern, simplePattern, bracketPattern] *)
RECURSIVE parseLogLineLoop(_, _)
parseLogLineLoop(line, matches) ==
  IF matches = <<>>
  THEN [raw |-> line, isError |-> hasErrorIndicator(line)]
  ELSE IF Head(matches) # <<>>
  THEN [raw |-> line, timestamp |-> Head(matches),
        timestampEnd |-> length(Head(matches))]
  ELSE parseLogLineLoop(line, Tail(matches))

parseLogLine(line) ==
  parseLogLineLoop(line, <<isoPattern(line), simplePattern(line),
                           bracketPattern(line)>>)

InitLogLine ==
  /\ InitServices
  /\ command = <<>>
  /\ callArgs \in [fn : {"parseLogLine"}, line : LogLineTexts]
  /\ callValue = NoCall

ParseLogLine ==
  /\ callArgs.fn = "parseLogLine"
  /\ callValue = NoCall
  /\ callValue' = [fn |-> "parseLogLine",
                   value |-> parseLogLine(callArgs.line)]
  /\ UNCHANGED <<callArgs, notCall>>

NextLogLine == ParseLogLine

SpecLogLine == InitLogLine /\ [][NextLogLine]_vars

(* ------------------- the options of the log request -------------------- *)
(* An optional value is a sequence of at most one element: <<>> is         *)
(* undefined.  A time text is the pair of the instant it denotes and its   *)
(* notation; the empty string denotes none.                                *)
MaxTailLines == 3

SinceTimes ==
  { <<>>, <<[instant |-> 0, form |-> ""]>>,
    <<[instant |-> 1, form |-> "2024-01-01T00:00:00Z"]>>,
    <<[instant |-> 1, form |-> "2024-01-01T09:00:00+09:00"]>> }

LogConfigs ==
  [follow : BOOLEAN, sinceTime : SinceTimes,
   tailLines : {<<>>} \cup {<<n>> : n \in 0..MaxTailLines}]

(* JavaScript truthiness of an optional string, of an optional number and  *)
(* of an optional object                                                   *)
truthyString(value) == value # <<>> /\ value[1].form # ""
truthyNumber(value) == value # <<>> /\ value[1] # 0
truthyObject(value) == value # <<>>

(* new Date(sinceTime) *)
Date(text) == [instant |-> text.instant]

(* Date.prototype.toISOString *)
toISOString(date) ==
  [instant |-> date.instant, form |-> "YYYY-MM-DDTHH:mm:ss.sssZ"]

(* k8s:logs:start: the LogOptions the handler passes to startLogStream     *)
logsStartOptions(config) ==
  [follow |-> config.follow,
   sinceTime |-> IF truthyString(config.sinceTime)
                 THEN <<Date(config.sinceTime[1])>> ELSE <<>>,
   tailLines |-> config.tailLines]

(* if (options.tailLines) *)
tailLinesGiven(options) == truthyNumber(options.tailLines)

(* startLogStream: the logOptions of log.log(...)                          *)
logOptions(options) ==
  LET base == [follow |-> options.follow, pretty |-> FALSE,
               timestamps |-> TRUE]
      since == IF truthyObject(options.sinceTime)
               THEN [sinceTime |-> toISOString(options.sinceTime[1])]
               ELSE <<>>
      tail == IF tailLinesGiven(options)
              THEN [tailLines |-> options.tailLines[1]] ELSE <<>>
  IN base @@ since @@ tail

InitLogOptions ==
  /\ InitServices
  /\ command = <<>>
  /\ callArgs \in [fn : {"k8s:logs:start"}, config : LogConfigs]
  /\ callValue = NoCall

(* the handler up to its call of startLogStream *)
LogsStartOptions ==
  /\ callArgs.fn = "k8s:logs:start"
  /\ callValue = NoCall
  /\ callValue' = [fn |-> "startLogStream",
                   options |-> logsStartOptions(callArgs.config)]
  /\ UNCHANGED <<callArgs, notCall>>

(* startLogStream up to its call of log.log *)
LogRequest ==
  /\ callValue.fn = "startLogStream"
  /\ callValue' = [fn |-> "log.log",
                   logOptions |-> logOptions(callValue.options)]
  /\ UNCHANGED <<callArgs, notCall>>

NextLogOptions == LogsStartOptions \/ LogRequest

SpecLogOptions == InitLogOptions /\ [][NextLogOptions]_vars

(* ------------------- SSHTunnelService.testConnection ------------------- *)
(* callArgs holds the call, callValue the promise it returned: how it has  *)
(* settled, whether the 10 s timer is armed, what the SSH client did, and  *)
(* how often resolve was called.                                           *)
TestOutcomes == {"pending", "true", "false", "rejected"}

(* resolve(value) of the promise: only the first call settles it           *)
resolve(promise, value) ==
  [promise EXCEPT !.settled = IF promise.settled = "pending" THEN value
                              ELSE promise.settled,
                  !.resolves = promise.resolves + 1]

(* testConnection up to its return: readFileSync throws on a key file that *)
(* cannot be read, and the async function then returns a rejected promise  *)
(* before a client or a timer exists                                       *)
testConnection(keyReadable) ==
  IF ~keyReadable
  THEN [fn |-> "testConnection", settled |-> "rejected", timer |-> FALSE,
        client |-> "none", ready |-> FALSE, resolves |-> 0]
  ELSE [fn |-> "testConnection", settled |-> "pending", timer |-> TRUE,
        client |-> "connecting", ready |-> FALSE, resolves |-> 0]

TestConnection(keyReadable) ==
  /\ callArgs = NoCall
  /\ callArgs' = [fn |-> "testConnection", keyReadable |-> keyReadable]
  /\ callValue' = testConnection(keyReadable)
  /\ UNCHANGED notCall

(* client.on('ready'): clearTimeout, client.end(), resolve(true) *)
TestClientReady ==
  /\ callArgs.fn = "testConnection"
  /\ callValue.client = "connecting"
  /\ callValue' = resolve([callValue EXCEPT !.timer = FALSE,
                                            !.client = "ended",
                                            !.ready = TRUE], "true")
  /\ UNCHANGED <<callArgs, notCall>>

(* client.on('error'): clearTimeout, resolve(false); the client may fail   *)
(* while connecting or while it is being ended                             *)
TestClientError ==
  /\ callArgs.fn = "testConnection"
  /\ callValue.client \in {"connecting", "ended"}
  /\ callValue' = resolve([callValue EXCEPT !.timer = FALSE,
                                            !.client = "failed"], "false")
  /\ UNCHANGED <<callArgs, notCall>>

(* the setTimeout callback: client.end(), resolve(false) *)
TestTimeout ==
  /\ callArgs.fn = "testConnection"
  /\ callValue.timer
  /\ callValue' = resolve([callValue EXCEPT !.timer = FALSE,
                                            !.client = "ended"], "false")
  /\ UNCHANGED <<callArgs, notCall>>

TestStep == TestConnection(TRUE) \/ TestConnection(FALSE)
              \/ TestClientReady \/ TestClientError \/ TestTimeout

(* connection tests next to the tunnels of stored connections *)
NextTest ==
  \/ \E keyReadable \in BOOLEAN : TestConnection(keyReadable)
  \/ TestClientReady
  \/ TestClientError
  \/ TestTimeout
  \/ \E id \in ConnIds, config \in Configs : ConnectionAddTunnel(id, config)
  \/ \E t \in TunnelIds : ClientReady(t)
  \/ \E t \in TunnelIds : ClientError(t)
  \/ \E t \in TunnelIds : ServerListening(t)
  \/ \E t \in TunnelIds : ServerError(t)
  \/ \E id \in ConnIds : ConnectionRemove(id)

SpecTest == Init /\ [][NextTest]_vars

(* --------------------------- connection:test --------------------------- *)
notTunnels == <<connections, streamVars, filterVars, storeVars, eventVars,
                callArgs, grepVars, viewVars>>

(* connection:test up to its first pending await.  sshOk is what           *)
(* testConnection resolved with; parses tells whether yaml.load and        *)
(* loadFromString accept the kubeconfig, which connect throws on otherwise *)
ConnectionTest(config, sshOk, parses) ==
  /\ callArgs = NoCall
  /\ config.ssh \/ sshOk
  /\ callArgs' = [fn |-> "connection:test", config |-> config]
  /\ IF config.ssh /\ ~sshOk
     THEN /\ callValue' = [fn |-> "connection:test", pc |-> "done",
                           parses |-> parses, value |-> FALSE]
          /\ UNCHANGED <<tunnels, tunnelObjs, clients>>
     ELSE IF config.ssh /\ serverMatch(config.kubeconfig)
     THEN /\ createTunnel(tempId, config)
          /\ callValue' = [fn |-> "connection:test", pc |-> "createTunnel",
                           parses |-> parses, value |-> FALSE]
          /\ UNCHANGED clients
     ELSE IF parses
     THEN /\ clients' = [clients EXCEPT ![tempId] =
                           connect(config.kubeconfig, NoPort)]
          /\ callValue' = [fn |-> "connection:test", pc |-> "getNamespaces",
                           parses |-> parses, value |-> FALSE]
          /\ UNCHANGED <<tunnels, tunnelObjs>>
     ELSE /\ callValue' = [fn |-> "connection:test", pc |-> "done",
                           parses |-> parses, value |-> FALSE]
          /\ UNCHANGED <<tunnels, tunnelObjs, clients>>
  /\ UNCHANGED <<connections, streamVars, filterVars, storeVars, eventVars,
                 grepVars, viewVars>>

(* the SSH client or the listener of the test's tunnel fails: createTunnel *)
(* rejects and the catch block returns false                               *)
ConnectionTestTunnelFailed(t) ==
  /\ callValue.fn = "connection:test"
  /\ callValue.pc = "createTunnel"
  /\ tunnelObjs[t].id = tempId
  /\ tunnelObjs[t].client = "connecting" \/ tunnelObjs[t].server = "binding"
  /\ tunnelObjs' = IF tunnelObjs[t].client = "connecting"
                   THEN [tunnelObjs EXCEPT ![t] = GoneTunnel("error", "none")]
                   ELSE [tunnelObjs EXCEPT ![t].server = "error",
                                           ![t].kubeconfig = NoKubeconfig]
  /\ callValue' = [callValue EXCEPT !.pc = "done"]
  /\ UNCHANGED <<tunnels, clients, notTunnels>>

(* server.listen callback of the test's tunnel: tunnels.set(tempId, ...);  *)
(* connection:test resumes with connect(tempId, ...) and, unless that      *)
(* throws, awaits getNamespaces(tempId)                                    *)
ConnectionTestListening(t) ==
  /\ callValue.fn = "connection:test"
  /\ callValue.pc = "createTunnel"
  /\ tunnelObjs[t].id = tempId
  /\ tunnelObjs[t].server = "binding"
  /\ tunnelObjs' = [tunnelObjs EXCEPT ![t].server = "listening",
                                      ![t].kubeconfig = NoKubeconfig]
  /\ tunnels' = [tunnels EXCEPT ![tempId] = t]
  /\ IF callValue.parses
     THEN /\ clients' = [clients EXCEPT ![tempId] =
                           connect(tunnelObjs[t].kubeconfig, localPort(t))]
          /\ callValue' = [callValue EXCEPT !.pc = "getNamespaces"]
     ELSE /\ callValue' = [callValue EXCEPT !.pc = "done"]
          /\ UNCHANGED clients
  /\ UNCHANGED notTunnels

(* getNamespaces(tempId) settles: the cleanup and `return true` after the  *)
(* namespaces arrived, the catch block after it rejected                   *)
ConnectionTestProbed(reachable) ==
  /\ callValue.fn = "connection:test"
  /\ callValue.pc = "getNamespaces"
  /\ IF reachable
     THEN /\ clients' = disconnect(tempId)
          /\ IF callArgs.config.ssh
             THEN /\ tunnelObjs' = closeTunnelObjs(tempId)
                  /\ tunnels' = closeTunnelMap(tempId)
             ELSE UNCHANGED <<tunnelObjs, tunnels>>
          /\ callValue' = [callValue EXCEPT !.pc = "done", !.value = TRUE]
     ELSE /\ callValue' = [callValue EXCEPT !.pc = "done"]
          /\ UNCHANGED <<clients, tunnelObjs, tunnels>>
  /\ UNCHANGED notTunnels

(* server.listen callback of a tunnel of connection:add whose kubeconfig   *)
(* connect throws on: the handler rejects before connections.set           *)
ServerListeningConnectThrows(t) ==
  /\ tunnelObjs[t].server = "binding"
  /\ tunnelObjs[t].id \in ConnIds
  /\ tunnelObjs' = [tunnelObjs EXCEPT ![t].server = "listening",
                                      ![t].kubeconfig = NoKubeconfig]
  /\ tunnels' = [tunnels EXCEPT ![tunnelObjs[t].id] = t]
  /\ UNCHANGED <<connections, clients, logStreams, streamObjs, lastCall>>
  /\ UNCHANGED notMain

(* connection tests next to one connection, with kubeconfigs of any kind   *)
NextProbe ==
  \/ \E config \in Configs, sshOk \in BOOLEAN, parses \in BOOLEAN :
       ConnectionTest(config, sshOk, parses)
  \/ \E t \in TunnelIds : ClientReady(t)
  \/ \E t \in TunnelIds : ConnectionTestTunnelFailed(t)
  \/ \E t \in TunnelIds : ConnectionTestListening(t)
  \/ \E reachable \in BOOLEAN : ConnectionTestProbed(reachable)
  \/ \E config \in Configs : ConnectionAddTunnel("c1", config)
  \/ \E config \in Configs : ConnectionAddDirect("c1", config)
  \/ \E t \in TunnelIds : tunnelObjs[t].id \in ConnIds /\ ClientError(t)
  \/ \E t \in TunnelIds : tunnelObjs[t].id \in ConnIds /\ ServerListening(t)
  \/ \E t \in TunnelIds : ServerListeningConnectThrows(t)
  \/ \E t \in TunnelIds : tunnelObjs[t].id \in ConnIds /\ ServerError(t)
  \/ ConnectionRemove("c1")

SpecProbe == Init /\ [][NextProbe]_vars

(* ============================ properties =============================== *)
RunningOf(sessionId) ==
  {p \in ProcIds : procObjs[p].sessionId = sessionId /\ ProcLive(p)}

(* C3: after any sequence of startFilter/stopFilter calls and process exit *)
(* events at most one live filter process exists per sessionId and it is   *)
(* the registered one; a start that registers a new process leaves exactly *)
(* that process live and the previously registered one terminated.         *)
C3_OneLiveFilterProcess ==
  /\ [](\A s \in SessionIds :
          /\ Cardinality(RunningOf(s)) <= 1
          /\ RunningOf(s) \subseteq {filters[s].process})
  /\ [][\A s \in SessionIds :
          (filters'[s].process # NoProc
             /\ filters'[s].process # filters[s].process)
            => /\ RunningOf(s)' = {filters'[s].process}
               /\ (filters[s].process # NoProc
                     => procObjs'[filters[s].process].state # "running")]_vars

(* a second filter was started over a registered one, whose process has    *)
(* been killed and has not yet exited                                      *)
C3_Witness ==
  \E s \in SessionIds, p \in ProcIds, q \in ProcIds :
    /\ filters[s].process = p /\ ProcLive(p)
    /\ procObjs[q].sessionId = s /\ procObjs[q].state = "killed"

(* a maximal pipe-free segment cmd[i..j] *)
IsStage(cmd, i, j) ==
  /\ i <= j + 1
  /\ (i = 1 \/ cmd[i - 1] = "|")
  /\ (j = Len(cmd) \/ cmd[j + 1] = "|")
  /\ \A k \in i..j : cmd[k] # "|"

(* some non-empty stage whose leading token is not an allow-listed utility *)
HasDisallowedStage(cmd) ==
  \E i \in 1..(Len(cmd) + 1), j \in 0..Len(cmd) :
    /\ IsStage(cmd, i, j)
    /\ \E k \in i..j :
         /\ cmd[k] \notin Spaces
         /\ \A b \in i..(k - 1) : cmd[b] \in Spaces
         /\ ~(cmd[k] \in {"grep", "awk", "sed", "cut", "sort", "uniq",
                           "head", "tail", "jq", "tr", "wc", "cat"}
              /\ (k = j \/ cmd[k + 1] \in Spaces))

(* C4: for any command in which some non-empty pipe stage has a leading    *)
(* token outside the allow-list, startFilter returns success=false and no  *)
(* child process is spawned or registered.                                 *)
C4_DisallowedStageRejected ==
  HasDisallowedStage(command)
    => /\ filterResult.sessionId # "none" => ~filterResult.success
       /\ \A p \in ProcIds : procObjs[p].state = "unused"
       /\ \A s \in SessionIds : filters[s] = NoFilter

(* startFilter was called with a command whose first stage is allow-listed *)
(* and a later one is not                                                  *)
C4_Witness ==
  /\ HasDisallowedStage(command)
  /\ command[1] \in allowedCommands
  /\ filterResult.sessionId # "none"

(* an output redirection: ">" or ">|" with a target after it *)
RedirectsOutput(cmd) ==
  \E i \in 1..Len(cmd), j \in 1..Len(cmd) :
    /\ cmd[i] = ">" /\ i < j
    /\ cmd[j] \notin Spaces \cup {"|"}
    /\ \/ \A k \in (i + 1)..(j - 1) : cmd[k] \in Spaces
       \/ (j = i + 2 /\ cmd[i + 1] = "|")

(* C5: validation precedes spawning: every command for which startFilter   *)
(* spawns a process contains no chaining construct (; & backtick           *)
(* subshell), no input or output redirection, no reference to rm/mv/cp, no *)
(* device path and no parent-directory traversal.                          *)
C5_SpawnedCommandsAreClean ==
  \A p \in ProcIds :
    procObjs[p].state \in {"running", "killed"}
      => LET cmd == procObjs[p].command
         IN /\ \A i \in 1..Len(cmd) :
                 cmd[i] \notin {";", "&", "backtick", "$(", "<", "/dev/", "../"}
            /\ ~RedirectsOutput(cmd)
            /\ ~HasWord(cmd, "rm") /\ ~HasWord(cmd, "mv")
            /\ ~HasWord(cmd, "cp")

LiveStreamsOf(sessionId) ==
  {st \in StreamIds : /\ streamObjs[st].sessionId = sessionId
                      /\ streamObjs[st].state = "live"}
OpeningStreamsOf(sessionId) ==
  {st \in StreamIds : /\ streamObjs[st].sessionId = sessionId
                      /\ streamObjs[st].state = "opening"}
LiveListenersOf(id) ==
  {t \in TunnelIds : tunnelObjs[t].id = id /\ ListenerLive(t)}

(* C1: after any sequence of startLogStream/stopLogStream calls at most    *)
(* one live (not aborted) remote log stream exists per sessionId; a start  *)
(* for a sessionId with a live stream aborts the old stream first.         *)
C1_AtMostOneLiveStream ==
  \A s \in SessionIds : Cardinality(LiveStreamsOf(s)) <= 1

(* C2: if stopLogStream(sessionId) is the last call invoked for a          *)
(* sessionId (also when it came while a start was still awaiting the       *)
(* remote open), then once every call has settled no remote stream is live *)
(* or registered for that sessionId.                                       *)
C2_StopAfterStartTearsDown ==
  \A s \in SessionIds :
    (lastCall[s] = "stop" /\ OpeningStreamsOf(s) = {})
      => (logStreams[s] = NoStream /\ LiveStreamsOf(s) = {})

(* C6: after any sequence of createTunnel/closeTunnel calls for one        *)
(* connection id, overlapping ones included, at most one live local        *)
(* listener exists for that id.                                            *)
C6_AtMostOneLiveListener ==
  \A id \in ConnIds : Cardinality(LiveListenersOf(id)) <= 1

(* C7: the cluster client registered for a connection added with an SSH    *)
(* endpoint targets 127.0.0.1 at the local port of the tunnel registered   *)
(* under the same id, never the original server address.                   *)
C7_SshClientUsesTunnel ==
  \A id \in ConnIds :
    (connections[id].stored /\ connections[id].ssh /\ clients[id].present)
      => /\ tunnels[id] # NoTunnel
         /\ clients[id].server = TunnelServer(localPort(tunnels[id]))

(* C8: in every reachable state the session's buffer holds at most the     *)
(* capacity (50,000 lines, here BufferLimit); the buffer followed by the   *)
(* pending queue is always the most recently received lines in arrival     *)
(* order, so what was evicted is older than everything that survives; and  *)
(* a flush that would exceed the capacity leaves the buffer exactly full,  *)
(* ending with the newest line.                                            *)
C8_BufferBoundedFifo ==
  /\ [](/\ Len(logLines) <= BufferLimit
        /\ LET all == logLines \o pendingLines
           IN \A i \in 1..Len(all) : all[i] = received - Len(all) + i)
  /\ [][(logLines' # logLines /\ logLines' # <<>>
           /\ Len(logLines) + Len(pendingLines) > BufferLimit)
          => /\ Len(logLines') = BufferLimit
             /\ logLines'[BufferLimit] = received]_vars

(* the buffer is full and its oldest lines have been evicted *)
C8_Witness ==
  /\ Len(logLines) = BufferLimit
  /\ logLines[1] > 1
  /\ pendingLines = <<>>

(* a session that was created and is no longer in the store *)
Removed(sessionId) ==
  /\ sessionId \notin SessionIdsOf(sessions)
  /\ lastCall[sessionId] # "none"

(* C9: after removeSession(id) no remote log stream and no filter process  *)
(* remains registered or live for that session id.                         *)
C9_RemovedSessionHasNoStream ==
  \A s \in SessionIds :
    Removed(s)
      => /\ logStreams[s] = NoStream /\ LiveStreamsOf(s) = {}
         /\ filters[s] = NoFilter /\ RunningOf(s) = {}

(* C10: when a connection is removed every log stream of that connection   *)
(* is aborted and unregistered: no live log stream refers to a connection  *)
(* that no longer exists.                                                  *)
C10_NoStreamOfRemovedConnection ==
  \A st \in StreamIds :
    streamObjs[st].state = "live"
      => connections[streamObjs[st].connectionId].stored

(* C11: after connection:remove(id) of a stored connection neither a       *)
(* tunnel nor a cluster client is registered under id, and the             *)
(* registrations of every other connection id are unchanged.               *)
C11_RemoveClearsRegistrations ==
  [][\A id \in ConnIds :
       (connections[id].stored /\ ~connections'[id].stored)
         => /\ tunnels'[id] = NoTunnel
            /\ ~clients'[id].present
            /\ \A other \in ConnIds \ {id} :
                 /\ tunnels'[other] = tunnels[other]
                 /\ clients'[other] = clients[other]
                 /\ connections'[other] = connections[other]]_vars

(* C12: once stopSession(id) has completed, no stream and no filter        *)
(* process is registered or live for id and the session is no longer       *)
(* listed; a further stopSession(id) changes none of the registries, the   *)
(* processes, the streams or the session list.                             *)
C12_StopSessionTearsDown ==
  /\ [](\A id \in stopped :
          /\ logStreams[id] = NoStream /\ LiveStreamsOf(id) = {}
          /\ filters[id] = NoFilter /\ RunningOf(id) = {}
          /\ id \notin SessionIdsOf(sessions))
  /\ [][\A id \in stopped :
          stopPc'[id] # stopPc[id]
            => UNCHANGED <<logStreams, streamObjs, filters, procObjs,
                           sessions, activeFilters>>]_vars

(* C13: stopLogStream for a sessionId without a registered stream (never   *)
(* started, start still pending, or already stopped) leaves the stream     *)
(* registry and every stream as they are.                                  *)
C13_StopUnregisteredIsNoOp ==
  [][\A s \in SessionIds :
       (LogsStop(s) /\ logStreams[s] = NoStream)
         => UNCHANGED <<logStreams, streamObjs>>]_vars

(* stop was called for a session while another session's stream is live    *)
(* and its own start is still pending                                      *)
C13_Witness ==
  \E s \in SessionIds, o \in SessionIds :
    /\ o # s
    /\ lastCall[s] = "stop" /\ logStreams[s] = NoStream
    /\ OpeningStreamsOf(s) # {}
    /\ logStreams[o] # NoStream /\ LiveStreamsOf(o) # {}

(* C14: stopAllLogStreams aborts every stream registered at the time of    *)
(* the call and leaves the stream registry empty.                          *)
C14_StopAllEmptiesRegistry ==
  [][StopAllLogStreams
       => /\ \A s \in SessionIds : logStreams'[s] = NoStream
          /\ \A s \in SessionIds :
               logStreams[s] # NoStream
                 => streamObjs'[logStreams[s]].state = "aborted"]_vars

(* stopAllLogStreams has stopped the registered streams of two sessions    *)
C14_Witness ==
  /\ \A s \in SessionIds : lastCall[s] = "stopAll" /\ logStreams[s] = NoStream
  /\ Cardinality({st \in StreamIds : streamObjs[st].state = "aborted"}) >= 2

(* C15: writeToFilter returns false and writes nothing whenever no live    *)
(* filter process exists for the session (never started, stopped or        *)
(* exited); whenever it returns true, the bytes went to the stdin of the   *)
(* session's live process.                                                 *)
C15_WriteNeedsLiveProcess ==
  [][\A s \in SessionIds, outcome \in WriteOutcomes :
       WriteToFilter(s, outcome)
         => /\ RunningOf(s) = {}
                 => (~lastWrite'.returned /\ lastWrite'.stdin = NoProc)
            /\ lastWrite'.returned => lastWrite'.stdin \in RunningOf(s)
            /\ ~lastWrite'.returned => lastWrite'.stdin = NoProc]_vars

(* a write was refused for a session whose registered process has exited   *)
C15_Witness ==
  \E s \in SessionIds :
    /\ lastWrite.sessionId = s /\ ~lastWrite.returned
    /\ filters[s].process # NoProc
    /\ procObjs[filters[s].process].state = "exited"

(* C16: stopFilter(sessionId) terminates the session's registered process  *)
(* (its stdin closed with it) and removes the registration, leaving no     *)
(* live process of the session; for a session without a registration, as   *)
(* after a first stopFilter, it changes neither the registry nor any       *)
(* process.                                                                *)
C16_StopFilterIdempotent ==
  [][\A s \in SessionIds :
       StopFilter(s)
         => /\ filters'[s] = NoFilter
            /\ RunningOf(s)' = {}
            /\ filters[s].process # NoProc
                 => procObjs'[filters[s].process].state \in {"killed", "exited"}
            /\ filters[s] = NoFilter => UNCHANGED <<filters, procObjs>>
            /\ \A o \in SessionIds \ {s} :
                 filters'[o] = filters[o] /\ RunningOf(o)' = RunningOf(o)]_vars

(* a running filter has been stopped: killed and no longer registered      *)
C16_Witness ==
  \E p \in ProcIds :
    /\ procObjs[p].state = "killed"
    /\ filters[procObjs[p].sessionId] = NoFilter

(* C17: when the process registered for a session exits with a code that   *)
(* is neither 0 nor null, a filter error event carrying that session's id  *)
(* is emitted, and neither that step nor the viewer's handling of the      *)
(* event touches the session's stream registration or raw buffer.          *)
C17_ExitEmitsDiagnostic ==
  [][/\ \A p \in ProcIds, code \in ExitCodes \ {"0", "null"} :
          (ProcExitCode(p, code)
            /\ filters[procObjs[p].sessionId].process = p)
            => /\ lastEvent'.channel = "filter:error"
               /\ lastEvent'.sessionId = procObjs[p].sessionId
               /\ UNCHANGED <<logStreams, streamObjs, logLines, pendingLines>>
     /\ OnFilterError
          => UNCHANGED <<logStreams, streamObjs, logLines, pendingLines>>]_vars

(* a registered process has just exited and its session's event is out     *)
C17_Witness ==
  \E p \in ProcIds, s \in SessionIds :
    /\ procObjs[p].state = "exited"
    /\ filters[s].process = p
    /\ ~filters[s].isAlive
    /\ lastEvent = onFilterError(s, "exit code")
(* what belongs to the sessions other than A is the same after the step    *)
OthersUntouched(A) ==
  \A B \in SessionIds \ {A} :
    /\ logStreams'[B] = logStreams[B]
    /\ filters'[B] = filters[B]
    /\ \A st \in StreamIds :
         streamObjs[st].sessionId = B => streamObjs'[st] = streamObjs[st]
    /\ \A p \in ProcIds :
         procObjs[p].sessionId = B => procObjs'[p] = procObjs[p]
    /\ filterErrors'[B] = filterErrors[B]
    /\ B = ViewedSession => UNCHANGED <<logLines, pendingLines, displayLines>>

(* which of the FailureCommands pass validation *)
FailureCommandValid ==
  [cmd \in FailureCommands |-> validateCommand(cmd).valid]

(* what every step of a startFilter call for A with cmd shows: a result    *)
(* for A that tells whether cmd was valid and spawned, no process that has *)
(* exited, and the streams and the viewer as they were                     *)
StartFilterStep(A, cmd, outcome) ==
  /\ Started < MaxStarts
  /\ filterResult'.sessionId = A
  /\ filterResult'.success = (FailureCommandValid[cmd] /\ outcome # "throws")
  /\ UNCHANGED <<mainVars, viewVars, filterErrors>>
  /\ \A p \in ProcIds :
       procObjs'[p].state = "exited" => procObjs[p].state = "exited"

C19_ChunkFedToQueueAndFilter ==
  [][\A s \in SessionIds, chunk \in Chunks :
       OnLogDataChunk(s, chunk, "written")
         => IF s = ViewedSession
            THEN /\ pendingLines' = pendingLines \o parsedLines(chunk)
                 /\ (/\ filterActive
                      /\ filters[s].process # NoProc
                      /\ ProcLive(filters[s].process))
                      => /\ lastWrite'.returned
                         /\ lastWrite'.stdin = filters[s].process
            ELSE UNCHANGED <<pendingLines, lastWrite>>]_vars
(* C20: while the filter of the viewed session is active every displayed   *)
(* line is a line the filter process wrote, and when the filter is stopped *)
(* the display becomes the raw buffer, which has taken in the raw lines    *)
(* that arrived meanwhile: whatever is not in it yet waits in a batch      *)
(* whose animation frame is scheduled.                                     *)
C20_FilterDisplayAndRevert ==
  /\ [](filterActive
         => \A i \in 1..Len(displayLines) : displayLines[i] = FilterLine)
  /\ [][(filterActive /\ ~filterActive')
         => /\ displayLines' = logLines'
            /\ pendingLines' # <<>> => rafId' = "scheduled"]_vars
(* nothing is on its way: no frame is scheduled, no call is awaiting its   *)
(* reply and no running filter has lines left to read                      *)
Quiescent ==
  /\ rafId # "scheduled" /\ filterRafId # "scheduled"
  /\ filterReplies = <<>>
  /\ stopPc[ViewedSession] = "idle"
  /\ \A p \in ProcIds : ProcLive(p) => pipedTo(p) = <<>>

AllLines == [i \in 1..ScenarioLines |-> i]

(* C21: the session is open and its three lines have been pushed and are   *)
(* in the buffer; once the filter grep "foo" has been applied after them   *)
(* and everything has settled, the display is exactly the line that        *)
(* contains foo; once the filter has been stopped and everything has       *)
(* settled, the display is all three lines in their order.                 *)
C21_FilterScenario ==
  /\ []((/\ received = ScenarioLines
          /\ logLines = AllLines
          /\ lastWrite = NoWrite
          /\ filterActive
          /\ Quiescent)
         => displayLines = grepOutput(AllLines))
  /\ []((/\ received = ScenarioLines
          /\ ~filterActive
          /\ \E p \in ProcIds : procObjs[p].state # "unused"
          /\ Quiescent)
         => displayLines = AllLines)
(* a stage passes: an exclude stage iff its pattern does not match, an     *)
(* include stage iff it matches                                            *)
StagePasses(line, stage) ==
  IF stage.exclude THEN ~test(stage.pattern, line)
  ELSE test(stage.pattern, line)

Reverse(seq) == [i \in 1..Len(seq) |-> seq[Len(seq) + 1 - i]]

(* C22: applyGrepFilter returns true iff every stage of the filter list    *)
(* passes the line, whatever the order of the stages; the empty list       *)
(* passes every line.                                                      *)
C22_GrepFilterIsConjunction ==
  callValue # NoCall
    => /\ callValue.value
            = (\A i \in 1..Len(callArgs.filters) :
                 StagePasses(callArgs.line, callArgs.filters[i]))
       /\ callValue.value
            = applyGrepFilter(callArgs.line, Reverse(callArgs.filters))
       /\ callArgs.filters = <<>> => callValue.value

(* a line that passes the first stage and is rejected by the second        *)
C22_Witness ==
  /\ callValue # NoCall
  /\ Len(callArgs.filters) = 2
  /\ StagePasses(callArgs.line, callArgs.filters[1])
  /\ callArgs.filters[2].exclude
  /\ ~callValue.value

(* C23: testConnection settles exactly once, with true only if the SSH     *)
(* handshake reached ready before an error or the timeout and with false   *)
(* otherwise, and no step of it changes the tunnel registry.               *)
C23_TestConnectionSettlesOnce ==
  /\ [](callArgs.fn = "testConnection"
          => /\ callValue.settled \in {"pending", "true", "false"}
             /\ callValue.settled = "true" => callValue.ready
             /\ (callValue.settled = "pending")
                  = (callValue.client = "connecting" /\ callValue.timer))
  /\ [][/\ (callArgs.fn = "testConnection" /\ callValue.settled # "pending")
              => callValue'.settled = callValue.settled
        /\ TestStep => UNCHANGED <<tunnels, tunnelObjs>>]_vars

(* the lines received so far, in receipt order *)
ReceivedLines == [i \in 1..received |-> i]

IsSuffix(lines, all) ==
  /\ Len(lines) <= Len(all)
  /\ lines = SubSeq(all, Len(all) - Len(lines) + 1, Len(all))

(* C24 as stated: in every state the buffer is a contiguous suffix of the  *)
(* non-blank lines received so far.                                        *)
C24_BufferIsSuffixOfReceived ==
  IsSuffix(logLines, ReceivedLines)

(* C24: the buffer holds lines in receipt order: it is a contiguous run of *)
(* the received lines without duplicate or reordering, the lines received  *)
(* after its last one are exactly the pending queue in order (the buffer   *)
(* followed by the queue is a suffix of the lines received so far), and    *)
(* after every flush the buffer itself is such a suffix.                   *)
C24_BufferInReceiptOrder ==
  /\ [](/\ \A i \in 1..(Len(logLines) - 1) : logLines[i + 1] = logLines[i] + 1
        /\ \A i \in 1..(Len(pendingLines) - 1) :
             pendingLines[i + 1] = pendingLines[i] + 1
        /\ IsSuffix(logLines \o pendingLines, ReceivedLines))
  /\ [][(rafId = "scheduled" /\ rafId' = "null")
          => IsSuffix(logLines', ReceivedLines')]_vars

(* the buffer has evicted its oldest lines and newer lines wait in the     *)
(* pending queue                                                           *)
C24_Witness ==
  /\ Len(logLines) = BufferLimit
  /\ logLines[1] > 1
  /\ pendingLines # <<>>

(* C25: at most one flush of the pending queue is requested at any time; a *)
(* chunk that arrives while one is requested is only queued (no further    *)
(* request, buffer and display untouched); and a flush moves the whole     *)
(* pending queue into the buffer and leaves the queue empty.               *)
C25_OneFlushPerFrame ==
  /\ [](frames <= 1 /\ (frames = 1) = (rafId = "scheduled"))
  /\ [][/\ (frames = 1 /\ received' > received)
             => /\ frames' = 1 /\ rafId' = rafId
                /\ logLines' = logLines /\ displayLines' = displayLines
                /\ pendingLines'
                     = pendingLines \o [i \in 1..(received' - received)
                                          |-> received + i]
        /\ frames' < frames /\ rafId' = "null"
             => /\ pendingLines' = <<>>
                /\ IsSuffix(logLines', logLines \o pendingLines)
                /\ \/ Len(logLines') = BufferLimit
                   \/ logLines' = logLines \o pendingLines]_vars

(* the lines of more than one chunk wait for the one requested flush       *)
C25_Witness ==
  /\ frames = 1
  /\ Len(pendingLines) > MaxChunkLines

(* a pattern argument: a quoted string, or a word that is not an option    *)
IsPatternText(text) ==
  /\ text # <<>>
  /\ text[1] \notin GrepFlags
  /\ \/ quoted(text, "\"") # <<>>
     \/ quoted(text, "'") # <<>>
     \/ \A i \in 1..Len(text) : text[i] \notin Spaces

(* the stage has the form grep [-v] <pattern> *)
OfGrepForm(part) ==
  /\ Len(part) >= 2 /\ IsGrep(part[1]) /\ part[2] \in Spaces
  /\ LET rest == trimStart(Tail(part))
     IN \/ IsPatternText(rest)
        \/ /\ Len(rest) >= 2 /\ rest[1] \in GrepFlags /\ rest[2] \in Spaces
           /\ IsPatternText(trimStart(Tail(rest)))

HasFlag(part) == \E i \in 1..Len(part) : part[i] \in GrepFlags

(* for the stages of the grep form in their order, whether -v is present   *)
RECURSIVE ExpectedExcludes(_)
ExpectedExcludes(parts) ==
  IF parts = <<>> THEN <<>>
  ELSE (IF OfGrepForm(trim(Head(parts))) THEN <<HasFlag(Head(parts))>>
        ELSE <<>>) \o ExpectedExcludes(Tail(parts))

(* C27: parseGrepPipeline returns, for every expression, one filter per    *)
(* pipe stage of the form grep [-v] <pattern>, in the order of the stages, *)
(* with exclude set iff the stage has -v; every other stage is dropped,    *)
(* and an expression without such a stage gives the empty list.            *)
C27_ParseGrepPipeline ==
  callValue # NoCall
    => [i \in 1..Len(callValue.value) |-> callValue.value[i].exclude]
         = ExpectedExcludes(splitPipe(callArgs.filter))

(* nothing of the viewer is under way: no queued line, no requested frame, *)
(* no re-filter due                                                        *)
ViewerSettled == pendingLines = <<>> /\ frames = 0 /\ ~filterTimer

(* C26: what the pattern-filter viewer displays once it has recomputed its *)
(* display is made of lines that pass the filter expression set at that    *)
(* time, in receipt order: a change of the expression also applies to the  *)
(* lines received before it.                                               *)
C26_DisplayPassesCurrentFilter ==
  ViewerSettled
    => /\ \A i \in 1..Len(displayLines) :
            applyGrepFilter(LineText(displayLines[i]),
                            parseGrepPipeline(grepFilter))
       /\ \A i \in 1..(Len(displayLines) - 1) :
            displayLines[i] < displayLines[i + 1]

(* the list viewer: every recomputation of the display gives exactly the   *)
(* buffer lines that pass the expression set at that time                  *)
PatternDisplayIsFilteredBuffer ==
  /\ [](grepFiltersRef = parseGrepPipeline(grepFilter))
  /\ [][(filterTimer /\ ~filterTimer')
          => displayLines'
               = filterLines(logLines', parseGrepPipeline(grepFilter'))]_vars
  /\ [](ViewerSettled
          => displayLines = filterLines(logLines, parseGrepPipeline(grepFilter)))

(* the timestamps of the three formats, each with its optional parts       *)
IsoStamps ==
  { <<"DATE", "T", "TIME">> \o frac \o zone :
      frac \in {<<>>, <<"FRAC">>}, zone \in {<<>>, <<"Z">>} }
SimpleStamps ==
  { <<"DATE", " ", "TIME">> \o frac : frac \in {<<>>, <<"FRAC">>} }
BracketStamps ==
  { <<"[", "DATE", " ", "TIME">> \o frac \o <<"]">> :
      frac \in {<<>>, <<"FRAC">>} }

IsPrefix(stamp, line) ==
  Len(stamp) <= Len(line) /\ SubSeq(line, 1, Len(stamp)) = stamp

StampsOf(line) ==
  {stamp \in IsoStamps \cup SimpleStamps \cup BracketStamps :
     IsPrefix(stamp, line)}

(* C28: parseLogLine returns raw equal to its input and either, for a line *)
(* that starts with a timestamp of one of the three formats, the longest   *)
(* such timestamp with timestampEnd its length in characters and no        *)
(* isError, or, for any other line, isError alone, true iff the line       *)
(* contains one of the error words.                                        *)
C28_ParseLogLineClassifies ==
  callValue # NoCall
    => LET line == callArgs.line
           result == callValue.value
       IN /\ result.raw = line
          /\ IF StampsOf(line) # {}
             THEN /\ DOMAIN result = {"raw", "timestamp", "timestampEnd"}
                  /\ result.timestamp \in StampsOf(line)
                  /\ \A stamp \in StampsOf(line) :
                       Len(stamp) <= Len(result.timestamp)
                  /\ result.timestampEnd = length(result.timestamp)
             ELSE /\ DOMAIN result = {"raw", "isError"}
                  /\ result.isError
                       = (\E i \in 1..Len(line) :
                            line[i] \in {"Error", "failed", "FATAL"})

(* a line with an ISO timestamp with fraction and zone, then an error word *)
C28_Witness ==
  /\ callValue # NoCall
  /\ callArgs.line = <<"DATE", "T", "TIME", "FRAC", "Z", " ", "Error">>
  /\ callValue.value.timestampEnd = 24
  /\ "isError" \notin DOMAIN callValue.value

(* C29: when the number of displayed lines grows, a consumer within the    *)
(* bottom tolerance is moved to the new last line and a consumer further   *)
(* up keeps its scroll position; and the at-bottom flag changes only with  *)
(* a scroll of the container.                                              *)
C29_AutoScrollFollowsPosition ==
  [][/\ Len(displayLines') > Len(displayLines)
          => IF atBottom(scrollTop, displayLines)
             THEN scrollTop' = maxScrollTop(displayLines')
             ELSE scrollTop' = scrollTop
     /\ isAtBottom' # isAtBottom => scrollTop' # scrollTop]_vars

(* C30: the log request carries follow as requested; sinceTime, denoting   *)
(* the requested instant, exactly when a time was supplied; and tailLines, *)
(* equal to the requested number, exactly when a number was supplied.      *)
C30_LogRequestCarriesOptions ==
  callValue.fn = "log.log"
    => LET config == callArgs.config
           sent == callValue.logOptions
       IN /\ sent.follow = config.follow
          /\ ("sinceTime" \in DOMAIN sent)
               = (config.sinceTime # <<>> /\ config.sinceTime[1].form # "")
          /\ "sinceTime" \in DOMAIN sent
               => sent.sinceTime.instant = config.sinceTime[1].instant
          /\ ("tailLines" \in DOMAIN sent) = (config.tailLines # <<>>)
          /\ "tailLines" \in DOMAIN sent
               => sent.tailLines = config.tailLines[1]

(* C31: a filter registered for a session whose process is running is      *)
(* marked alive and writeToFilter for the session returns true while the   *)
(* stdin takes the bytes, also after the exit of a process the filter      *)
(* replaced.                                                               *)
C31_ReplacingFilterStaysAlive ==
  \A s \in SessionIds :
    (filters[s].process # NoProc /\ ProcLive(filters[s].process))
      => /\ filters[s].isAlive
         /\ writeToFilter(s, "written").returned

(* C32: whenever the pending queue of the viewed session is non-empty a    *)
(* flush into the ring buffer is scheduled, also after the session's       *)
(* filter was activated or deactivated while a flush was pending.          *)
C32_PendingLinesHaveFlushScheduled ==
  pendingLines # <<>> => frames > 0

(* C33: in the pattern-filter viewer every flush of pending lines into the *)
(* buffer, which leaves a display update owed, is eventually followed by   *)
(* that display update, also while chunks keep arriving.                   *)
C33_FlushReachesDisplay ==
  filterTimer ~> ~filterTimer

(* C34: a session whose filter the store marks active, with no start call  *)
(* of that session awaiting its reply, has a filter registered in the main *)
(* process that is marked alive and whose process is running.              *)
C34_ActiveFilterHasLiveProcess ==
  \A s \in activeFilters :
    (\A i \in 1..Len(filterReplies) : filterReplies[i].sessionId # s)
      => /\ filters[s].process # NoProc
         /\ filters[s].isAlive
         /\ ProcLive(filters[s].process)

(* C35: a startFilter call that is rejected for an empty command or by the *)
(* validation leaves the filter registry and the filter processes as they  *)
(* were.                                                                   *)
C35_RejectedStartKeepsRegistry ==
  [][\A s \in SessionIds, cmd \in SampleCommands, outcome \in SpawnOutcomes :
       (/\ trim(cmd) = <<>> \/ ~validateCommand(cmd).valid
        /\ StartFilter(s, cmd, outcome))
         => UNCHANGED <<filters, procObjs>>]_vars

(* C36: when stopAllSessions completes, every remote stream and filter     *)
(* process that is still registered, and every live stream, belongs to a   *)
(* session that the store lists.                                           *)
C36_StopAllLeavesNothingUnlisted ==
  [][StopAllDone
       => /\ \A s \in SessionIds :
               (logStreams'[s] # NoStream \/ filters'[s].process # NoProc)
                 => s \in SessionIdsOf(sessions')
          /\ \A st \in StreamIds :
               streamObjs'[st].state = "live"
                 => streamObjs'[st].sessionId \in SessionIdsOf(sessions')]_vars

(* C37: a tunnel or cluster client registered under a connection id        *)
(* belongs to a stored connection, and once connection:test has returned   *)
(* neither a tunnel nor a cluster client is registered under its temporary *)
(* id.                                                                     *)
C37_RegistrationsBelongToConnections ==
  /\ \A id \in ConnIds :
       (tunnels[id] # NoTunnel \/ clients[id].present) => connections[id].stored
  /\ (callValue.fn = "connection:test" /\ callValue.pc = "done")
       => tunnels[tempId] = NoTunnel /\ ~clients[tempId].present

(* C38: the filter output that the viewer of a session queues for its      *)
(* display while the session's filter is active was written by the filter  *)
(* process registered for the session at that time, not by a process that  *)
(* an earlier stop or replacement has killed.                              *)
C38_DisplayedOutputIsOfCurrentFilter ==
  [][\A p \in ProcIds :
       (/\ pendingFilterLines' # pendingFilterLines
        /\ FilterOutput(p) \/ LateFilterOutput(p))
         => filters[ViewedSession].process = p]_vars

(* C39: every session id that is in activeFilters, has a filter command in *)
(* sessionFilters or has an error in filterErrors is the id of a session   *)
(* in the store's session list.                                            *)
C39_FilterStateOfListedSessions ==
  \A s \in SessionIds :
    (s \in activeFilters \/ sessionFilters[s] # <<>> \/ filterErrors[s] # "none")
      => s \in SessionIdsOf(sessions)

(* the id of the last session of a list, null for the empty list           *)
LastIdOf(list) == IF Len(list) > 0 THEN list[Len(list)].id ELSE "null"

====
